---------------------------- MODULE Spec2Model ----------------------------
(***************************************************************************)
(* go-selfupdate: the update orchestration of package selfupdate.          *)
(*                                                                         *)
(* Three revisions of the Updater live in the repository and are modelled  *)
(* side by side; the variable api says which one a behaviour runs:         *)
(*   "legacy"  src/unnamed/part_009 lines 20-440   (BackgroundRun/Update,  *)
(*             own fromStream, OnSuccessfulUpdate hook)                    *)
(*   "result"  src/selfupdate/selfupdate.go 26-366 (BackgroundRun/Update   *)
(*             with the Result field)                                      *)
(*   "new"     src/selfupdate/selfupdate.go 393-689 (NewUpdater/Run)       *)
(* A run is cut into steps at its external calls (requests, file           *)
(* operations); pc is the position of the run, log the calls it has made.  *)
(***************************************************************************)
EXTENDS Integers, Sequences, FiniteSets, TLC

VARIABLES
    api,      \* revision of the Updater in use (fixed in a behaviour)
    u,        \* the Updater struct
    fs,       \* the executable and its sibling files: target, new, old
    cktime,   \* the schedule state file <Dir>/cktime
    now,      \* the wall clock, in ticks
    pc,       \* position of the current call
    run,      \* locals of the current call
    log,      \* external calls made by the current call, in order
    ret,      \* what the last finished call returned
    env       \* the surroundings, fixed in a behaviour: the binaries and the
              \* manifests the update servers hold, the number of calls the
              \* program makes, whether operations on the executable's files
              \* can fail, and whether the program checks in the background

vars == <<api, u, fs, cktime, now, pc, run, log, ret, env>>

---------------------------------------------------------------------------
(* Bounds of the model *)

\* longest binary, in bytes
MaxLen == 2
\* clock resolution: ticks in one second (RFC 3339 keeps whole seconds)
TicksPerSecond == 2
\* largest CheckTime / RandomizeTime and the time the clock may run, in hours
MaxHours == 1
\* number of calls of Update / Run / BackgroundRun in one behaviour
MaxCalls == 1

(* Program constants *)

\* sha256.Size
Sha256Size == 32
\* seconds in time.Hour
SecondsPerHour == 3600
\* readTime answers now + 1000 hours for an unreadable state file
FarFutureHours == 1000

Second == TicksPerSecond
Hour == SecondsPerHour * Second

---------------------------------------------------------------------------
(* Bytes, files, digests *)

Bytes == {0, 1}

RECURSIVE SeqsOfLen(_)
SeqsOfLen(n) ==
    IF n = 0 THEN {<<>>}
    ELSE {Append(s, b) : s \in SeqsOfLen(n - 1), b \in Bytes}

\* every executable image the model knows
Bins == UNION {SeqsOfLen(n) : n \in 1..MaxLen}

\* the images a program in the field may be running: one of each length
Installed == {b \in Bins : \A i \in 1..Len(b) : b[i] = 0}

\* a path holds no file, or a file with some bytes
Absent == <<>>
File(data) == <<data>>
Exists(f) == f # Absent
Data(f) == f[1]

\* the first k bytes of data
Prefix(data, k) == SubSeq(data, 1, k)

\* crypto/sha256 as an injective code of the byte string (no collisions)
RECURSIVE Sha256Sum(_)
Sha256Sum(data) ==
    IF data = <<>> THEN 1
    ELSE 2 * Sha256Sum(SubSeq(data, 1, Len(data) - 1)) + data[Len(data)]

\* a []byte holding a digest: its length and its value
Digest(data) == [len |-> Sha256Size, sum |-> Sha256Sum(data)]
NilHash == [len |-> 0, sum |-> 0]
\* a 32-byte value that is the digest of no binary, and a value one byte short
StrangeHash == [len |-> Sha256Size, sum |-> 0]
ShortHash == [len |-> Sha256Size - 1, sum |-> 0]

\* a verifySha that accepts any bytes
verifySha_skip(bin, sha) == TRUE

verifySha(bin, sha) == Digest(bin) = sha

---------------------------------------------------------------------------
(* Errors: a message and the errors it quotes *)

Err(m) == [msg |-> m, args |-> <<>>]
Nil == Err("<nil>")
ErrHashMismatch == Err("new file hash mismatch after patch")
ErrNilReadCloser == Err("Fetch was expected to return non-nil ReadCloser")
ErrNilRequester == Err("unable to fetch information with nil requester")
\* the panic of a method call on a nil interface value
NilDereference == Err("invalid memory address or nil pointer dereference")
ErrBadCmdHash == Err("bad cmd hash in info")
ErrBadHash == Err("bad hash in info")
ErrJSON == Err("json: cannot decode")
ErrCorrupt == Err("corrupt patch")
ErrGzipHeader == Err("gzip: invalid header")
ErrUnexpectedEOF == Err("unexpected EOF")
\* an error of the operating system for operation op
OsErr(op) == [msg |-> op, args |-> <<>>]
\* os.ErrNotExist
ErrNotExist == OsErr("file does not exist")
\* errors a Requester may answer with
RequesterErrs == {Err("requester: error x"), Err("requester: error y")}
ErrBadStatus == Err("bad http status")
ErrTransport == Err("http: transport error")

\* a report that drops the recovery error
UpdateAndRecoveryErrors_first(err, errRecover) == err

\* fmt.Errorf("update and recovery errors: %q %q", err, errRecover)
UpdateAndRecoveryErrors(err, errRecover) ==
    [msg |-> "update and recovery errors", args |-> <<err, errRecover>>]

---------------------------------------------------------------------------
(* What the servers can answer *)

Versions == {"1.0", "2.0"}

\* an optional JSON field: absent, or present with a value
None == <<>>
Some(v) == <<v>>

NilBody == [t |-> "nil"]
JunkBody == [t |-> "junk"]
\* every JSON object a server can answer for the manifest
Manifests(bins) ==
    [t : {"json"},
     Version : {None} \cup {Some(v) : v \in Versions},
     Sha256 : {None, Some(StrangeHash), Some(ShortHash)}
                  \cup {Some(Digest(b)) : b \in bins}]
\* the manifests a release tool wrote
ReleasedManifests(bins) ==
    [t : {"json"},
     Version : {Some(v) : v \in Versions},
     Sha256 : {Some(Digest(b)) : b \in bins}]
\* the empty JSON object {}
EmptyManifest == [t |-> "json", Version |-> None, Sha256 |-> None]
ManifestBodies == env.manifests
\* a patch is made from an image in the field to an image the servers hold
PatchBodies == [t : {"patch"}, from : Installed, to : env.served]
GzipBodies == [t : {"gzip"}, data : env.served, cut : BOOLEAN]

BodiesOf(kind) ==
    CASE kind = "info" -> ManifestBodies
      [] kind = "patch" -> PatchBodies
      [] kind = "bin" -> GzipBodies

\* what the network gives http.Get: a transport error, or a status and a body
NetResponses(kind) ==
    {[err |-> ErrTransport, status |-> 0, body |-> NilBody]}
    \cup [err : {Nil}, status : {200, 404}, body : BodiesOf(kind) \cup {JunkBody}]

\* HTTPRequester.Fetch
HTTPRequesterFetch(resp) ==
    IF resp.err # Nil THEN [body |-> NilBody, err |-> resp.err]
    ELSE IF resp.status # 200 THEN [body |-> NilBody, err |-> ErrBadStatus]
    ELSE [body |-> resp.body, err |-> Nil]

\* what a caller-supplied Requester may return: any body with any error
CustomReplies(kind) ==
    [body : BodiesOf(kind) \cup {JunkBody, NilBody}, err : {Nil} \cup RequesterErrs]

\* the answers Requester.Fetch can give to a request of this kind
RequesterReplies(requester, kind) ==
    IF requester = "custom" THEN CustomReplies(kind)
    ELSE {HTTPRequesterFetch(r) : r \in NetResponses(kind)}

---------------------------------------------------------------------------
(* The addresses of the three requests.  An address is the sequence of the  *)
(* pieces of text the code joins.                                           *)

\* runtime.GOOS + "-" + runtime.GOARCH
plat == "linux-amd64"

\* the characters of a name as url.QueryEscape sees them: the runs of
\* characters it keeps and, between them, each character it escapes
Text(s) ==
    CASE s = "myapp+foo" -> <<"myapp", "+", "foo">>
      [] OTHER -> <<s>>

\* what url.QueryEscape writes for one piece of a name
EscapePiece(c) ==
    CASE c = "+" -> "%2B"
      [] c = " " -> "+"
      [] c = "/" -> "%2F"
      [] OTHER -> c

\* a QueryEscape that copies its argument
QueryEscape_raw(s) == Text(s)

\* url.QueryEscape
QueryEscape(s) == [i \in 1..Len(Text(s)) |-> EscapePiece(Text(s)[i])]

\* u.ApiURL + url.QueryEscape(u.CmdName) + "/" + url.QueryEscape(plat) + ".json"
ManifestAddress(updater) ==
    <<updater.ApiURL>> \o QueryEscape(updater.CmdName) \o <<"/">>
      \o QueryEscape(plat) \o <<".json">>

\* u.DiffURL + url.QueryEscape(u.CmdName) + "/" + url.QueryEscape(u.CurrentVersion)
\*   + "/" + url.QueryEscape(u.Info.Version) + "/" + url.QueryEscape(plat)
PatchAddress(updater, info) ==
    <<updater.DiffURL>> \o QueryEscape(updater.CmdName) \o <<"/">>
      \o QueryEscape(updater.CurrentVersion) \o <<"/">>
      \o QueryEscape(info.Version) \o <<"/">> \o QueryEscape(plat)

\* u.BinURL + url.QueryEscape(u.CmdName) + "/" + url.QueryEscape(u.Info.Version)
\*   + "/" + url.QueryEscape(plat) + ".gz"
BinAddress(updater, info) ==
    <<updater.BinURL>> \o QueryEscape(updater.CmdName) \o <<"/">>
      \o QueryEscape(info.Version) \o <<"/">> \o QueryEscape(plat) \o <<".gz">>

---------------------------------------------------------------------------
(* The fetch helpers of the legacy Updater (the "result" revision holds the *)
(* same text, src/selfupdate/selfupdate.go 258-341)                         *)

\* a fetch that hands on whatever the Requester answered
fetch_unchecked(requester, reply) == reply

\* Updater.fetch: reply is what the Requester (the default HTTP requester
\* when u.Requester is nil) answered
fetch(requester, reply) ==
    IF requester = "nil" THEN reply
    ELSE IF reply.err # Nil THEN [body |-> NilBody, err |-> reply.err]
    ELSE IF reply.body = NilBody THEN [body |-> NilBody, err |-> ErrNilReadCloser]
    ELSE [body |-> reply.body, err |-> Nil]

\* json.Decoder.Decode into a struct: a field the document lacks keeps the
\* value the struct had
Decode(info, doc) ==
    [Version |-> IF doc.Version = None THEN info.Version ELSE doc.Version[1],
     Sha256 |-> IF doc.Sha256 = None THEN info.Sha256 ELSE doc.Sha256[1]]

ZeroInfo == [Version |-> "", Sha256 |-> NilHash]

\* a fetchInfo without the test of the checksum's length
fetchInfo_anyLength(info, requester, reply) ==
    LET r == fetch(requester, reply) IN
    IF r.err # Nil THEN [Info |-> info, err |-> r.err]
    ELSE IF r.body.t # "json" THEN [Info |-> info, err |-> ErrJSON]
    ELSE [Info |-> Decode(info, r.body), err |-> Nil]

\* Updater.fetchInfo: decodes into u.Info; answers the new u.Info and the error
fetchInfo(info, requester, reply) ==
    LET r == fetch(requester, reply) IN
    IF r.err # Nil THEN [Info |-> info, err |-> r.err]
    ELSE IF r.body.t # "json" THEN [Info |-> info, err |-> ErrJSON]
    ELSE LET d == Decode(info, r.body) IN
         IF d.Sha256.len # Sha256Size THEN [Info |-> d, err |-> ErrBadCmdHash]
         ELSE [Info |-> d, err |-> Nil]

\* binarydist.Patch(old, new, patch): every result the transform may give.
\* A patch made from these old bytes yields its target; applied to other
\* bytes it fails or yields whatever bytes the patch encodes.
Patch(old, body) ==
    IF body.t # "patch" THEN {[data |-> <<>>, err |-> ErrCorrupt]}
    ELSE IF body.from = old THEN {[data |-> body.to, err |-> Nil]}
    ELSE {[data |-> <<>>, err |-> ErrCorrupt]}
         \cup {[data |-> g, err |-> Nil] : g \in env.served}

\* Updater.fetchAndApplyPatch: the possible (bytes, error) results
fetchAndApplyPatch(old, requester, reply) ==
    LET r == fetch(requester, reply) IN
    IF r.err # Nil THEN {[bin |-> <<>>, err |-> r.err]}
    ELSE {[bin |-> p.data, err |-> p.err] : p \in Patch(old, r.body)}

\* Updater.fetchAndVerifyPatch
fetchAndVerifyPatch(old, info, requester, reply) ==
    {IF a.err # Nil THEN [bin |-> <<>>, err |-> a.err]
     ELSE IF ~verifySha(a.bin, info.Sha256) THEN [bin |-> <<>>, err |-> ErrHashMismatch]
     ELSE [bin |-> a.bin, err |-> Nil]
       : a \in fetchAndApplyPatch(old, requester, reply)}

\* gzip.NewReader followed by io.Copy of the decompressed stream
Gunzip(body) ==
    IF body.t # "gzip" THEN [data |-> <<>>, err |-> ErrGzipHeader]
    ELSE IF body.cut THEN [data |-> <<>>, err |-> ErrUnexpectedEOF]
    ELSE [data |-> body.data, err |-> Nil]

\* Updater.fetchBin
fetchBin(requester, reply) ==
    LET r == fetch(requester, reply) IN
    IF r.err # Nil THEN [bin |-> <<>>, err |-> r.err]
    ELSE LET g == Gunzip(r.body) IN [bin |-> g.data, err |-> g.err]

\* Updater.fetchAndVerifyFullBin
fetchAndVerifyFullBin(info, requester, reply) ==
    LET b == fetchBin(requester, reply) IN
    IF b.err # Nil THEN [bin |-> <<>>, err |-> b.err]
    ELSE IF ~verifySha(b.bin, info.Sha256) THEN [bin |-> <<>>, err |-> ErrHashMismatch]
    ELSE [bin |-> b.bin, err |-> Nil]

---------------------------------------------------------------------------
(* The fetch helpers of the new Updater, src/selfupdate/selfupdate.go 588-689 *)

\* Updater.fetch: a nil requester is an error, no request is made
run_fetch(requester, reply) ==
    IF requester = "nil" THEN [body |-> NilBody, err |-> ErrNilRequester]
    ELSE IF reply.err # Nil THEN [body |-> NilBody, err |-> reply.err]
    ELSE IF reply.body = NilBody THEN [body |-> NilBody, err |-> ErrNilReadCloser]
    ELSE [body |-> reply.body, err |-> Nil]

\* Updater.fetchInfo: decodes into a fresh versionInfo
run_fetchInfo(requester, reply) ==
    LET r == run_fetch(requester, reply) IN
    IF r.err # Nil THEN [Info |-> ZeroInfo, err |-> r.err]
    ELSE IF r.body.t # "json" THEN [Info |-> ZeroInfo, err |-> ErrJSON]
    ELSE LET d == Decode(ZeroInfo, r.body) IN
         IF d.Sha256.len # Sha256Size THEN [Info |-> ZeroInfo, err |-> ErrBadHash]
         ELSE [Info |-> d, err |-> Nil]

\* Updater.getExeWithPatchForVersion: the possible (bytes, error) results
getExeWithPatchForVersion(old, info, requester, reply) ==
    LET r == run_fetch(requester, reply) IN
    IF r.err # Nil THEN {[bin |-> <<>>, err |-> r.err]}
    ELSE {IF p.err # Nil THEN [bin |-> <<>>, err |-> p.err]
          ELSE IF ~verifySha(p.data, info.Sha256)
               THEN [bin |-> <<>>, err |-> ErrHashMismatch]
          ELSE [bin |-> p.data, err |-> Nil]
            : p \in Patch(old, r.body)}

\* Updater.getEntireBinaryForVersion
getEntireBinaryForVersion(info, requester, reply) ==
    LET r == run_fetch(requester, reply) IN
    IF r.err # Nil THEN [bin |-> <<>>, err |-> r.err]
    ELSE LET g == Gunzip(r.body) IN
         IF g.err # Nil THEN [bin |-> <<>>, err |-> g.err]
         ELSE IF ~verifySha(g.data, info.Sha256)
              THEN [bin |-> <<>>, err |-> ErrHashMismatch]
         ELSE [bin |-> g.data, err |-> Nil]

---------------------------------------------------------------------------
(* State of a call *)

\* no request was made
NoReply == [body |-> [t |-> "none"], err |-> Nil]

\* locals of a call before it starts
Run0 ==
    [old |-> "none",          \* the read handle on the target: none, open, closed
     deferClose |-> FALSE,    \* defer old.Close() is registered
     info |-> ZeroInfo,       \* the manifest of this call
     bin |-> <<>>,            \* the candidate bytes
     from |-> "none",         \* which step produced bin: patch, full
     patchGot |-> "none",     \* what the patch endpoint served (PatchServed)
     fullGot |-> "none",      \* what the full-binary endpoint served (FullServed)
     patchErr |-> Nil,        \* err after the patch step, until it is assigned again
     fullErr |-> Nil,         \* err after the full-binary step
     entry |-> "none",        \* the exported method the program called
     want |-> FALSE,          \* what WantUpdate answered to BackgroundRun
     wrote |-> FALSE,         \* what SetUpdateTime answered
     infoGot |-> NoReply,     \* what the Requester answered to the manifest request
     urls |-> <<>>,           \* the addresses requested, in order
     available |-> FALSE,     \* what UpdateAvailable answered
     arg |-> "none",          \* the argument of a Set method
     made |-> <<>>,           \* the Updater a Set method returned
     u0 |-> <<>>,             \* the Updater when the call started
     fs0 |-> [target |-> Absent, new |-> Absent, old |-> Absent],
                              \* the executable's files when the call started
     ck0 |-> [st |-> "absent", sec |-> 0],
                              \* the schedule file when the call started
     orig |-> Absent,         \* the target when the installer was entered
     err |-> Nil,             \* fromStream's err
     errRecover |-> Nil,      \* fromStream's errRecover
     copyErr |-> Nil,         \* what io.Copy answered
     removeErr |-> Nil]       \* what the removal of a stale backup answered

\* locals of a call of the exported method e
Call(e) == [Run0 EXCEPT !.entry = e, !.u0 = u, !.fs0 = fs, !.ck0 = cktime]

\* what a Requester's answer to the patch request holds: an error, a patch
\* from the bytes old to bytes with the manifest's checksum, or something else
PatchServed(reply, old, info) ==
    IF reply.err # Nil THEN "error"
    ELSE IF reply.body.t = "patch" /\ reply.body.from = old
            /\ Digest(reply.body.to) = info.Sha256
    THEN "valid"
    ELSE "other"

\* what a Requester's answer to the full-binary request holds: an error, an
\* intact gzip of bytes with or without the manifest's checksum, or something else
FullServed(reply, info) ==
    IF reply.err # Nil THEN "error"
    ELSE IF reply.body.t = "gzip" /\ ~reply.body.cut
    THEN IF Digest(reply.body.data) = info.Sha256 THEN "match" ELSE "mismatch"
    ELSE "other"

\* what the caller holds: the answer of the call, the number of calls made,
\* and the manifest of the last Run that answered (true, nil)
NoRet == [err |-> Nil, updated |-> FALSE, calls |-> 0, applied |-> NoReply.body]

Idle == pc = "idle"

\* the outcomes of a file operation: success, and failure where files can fail
Oks == IF env.faults THEN BOOLEAN ELSE {TRUE}

Count(l, e) == Cardinality({i \in 1..Len(l) : l[i] = e})

\* a call returns (err) or (updated, err); a deferred old.Close() runs
Return(r, l, e, upd) ==
    /\ pc' = "done"
    /\ ret' = [ret EXCEPT !.err = e, !.updated = upd, !.calls = ret.calls + 1]
    /\ run' = IF r.deferClose /\ r.old = "open" THEN [r EXCEPT !.old = "closed"] ELSE r
    /\ log' = IF r.deferClose THEN Append(l, "close old") ELSE l

\* the methods that answer a new Updater
Setters == {"SetUpdatableResolver", "SetRequester", "SetPlatformResolver"}

\* the caller takes the answer and goes on: with the Updater a Set method made
\* (updater = updater.SetRequester(r)), else with the one it had
Caller_next ==
    /\ pc = "done"
    /\ ret.err # NilDereference
    /\ pc' = "idle"
    /\ run' = Run0
    /\ log' = <<>>
    /\ ret' = [NoRet EXCEPT !.calls = ret.calls,
                           !.applied = IF ret.updated THEN run.infoGot.body
                                       ELSE ret.applied]
    /\ u' = IF run.entry \in Setters THEN run.made ELSE u
    /\ UNCHANGED <<api, fs, cktime, now, env>>

\* canUpdate: create the sibling .new file and remove it again (the error of
\* the removal is dropped); the possible (file system, error) results
canUpdate(f) ==
    {[fs |-> [f EXCEPT !.new = Absent], err |-> Nil]}
    \cup (IF env.faults \/ env.sched
          THEN {[fs |-> f, err |-> OsErr("open new")]}
          ELSE {})
    \cup (IF env.faults
          THEN {[fs |-> [f EXCEPT !.new = File(<<>>)], err |-> Nil]}
          ELSE {})

---------------------------------------------------------------------------
(* The installer: fromStream, src/unnamed/part_009 268-328.  The "result"   *)
(* and "new" revisions call FromStream of go-update v0, the library this    *)
(* function was copied from, with the same target.                          *)

\* os.Executable, ioutil.ReadAll of the buffer, os.OpenFile(newPath, CREATE|TRUNC)
fromStream_open ==
    /\ pc = "fs_open"
    /\ \E fault \in (IF env.faults THEN {"none", "executable", "open"} ELSE {"none"}) :
         IF fault = "executable"
         THEN /\ run' = [run EXCEPT !.err = OsErr("executable")]
              /\ log' = log
              /\ fs' = fs
              /\ pc' = "fs_return"
         ELSE IF fault = "open"
         THEN /\ run' = [run EXCEPT !.err = OsErr("open new")]
              /\ log' = Append(log, "open new")
              /\ fs' = fs
              /\ pc' = "fs_return"
         ELSE /\ run' = run
              /\ log' = Append(log, "open new")
              /\ fs' = [fs EXCEPT !.new = File(<<>>)]
              /\ pc' = "fs_copy"
    /\ UNCHANGED <<api, u, cktime, now, ret, env>>

\* what io.Copy leaves in the new file: all the bytes, or on a write error
\* only the first k of them
CopyResults(bin) ==
    {[data |-> bin, err |-> Nil]}
    \cup {[data |-> Prefix(bin, k), err |-> OsErr("write new")] :
             k \in IF env.faults THEN 0..(Len(bin) - 1) ELSE {}}

\* a fromStream that writes again when the write failed
AfterCopy_again(c) == IF c.err # Nil THEN "fs_copy" ELSE "fs_remove"

\* what fromStream does with the error of io.Copy: the next assignment to err
\* (the rename) overwrites it unread
AfterCopy(c) == "fs_remove"

\* _, err = io.Copy(fp, ...); fp.Close()
fromStream_copy ==
    /\ pc = "fs_copy"
    /\ \E c \in CopyResults(run.bin) :
         /\ fs' = [fs EXCEPT !.new = File(c.data)]
         /\ run' = [run EXCEPT !.err = c.err, !.copyErr = c.err]
         /\ pc' = AfterCopy(c)
    /\ log' = Append(log, "write new")
    /\ UNCHANGED <<api, u, cktime, now, ret, env>>

\* what os.Remove answers for a file: it does not exist, it is removed, or
\* the removal fails
RemoveResults(f) ==
    IF ~Exists(f) THEN {ErrNotExist}
    ELSE {Nil} \cup (IF env.faults THEN {OsErr("remove old")} ELSE {})

\* _ = os.Remove(oldPath): the answer is dropped
fromStream_removeOld ==
    /\ pc = "fs_remove"
    /\ \E e \in RemoveResults(fs.old) :
         /\ fs' = IF e = Nil THEN [fs EXCEPT !.old = Absent] ELSE fs
         /\ run' = [run EXCEPT !.removeErr = e]
    /\ log' = Append(log, "remove old")
    /\ pc' = "fs_rename_old"
    /\ UNCHANGED <<api, u, cktime, now, ret, env>>

\* a fromStream that goes on to the second rename whatever the first answered
AfterRenameOld_goOn(err) == "fs_rename_new"

\* if err != nil { return } after the rename of the target to the backup path
AfterRenameOld(err) == IF err # Nil THEN "fs_return" ELSE "fs_rename_new"

\* err = os.Rename(updatePath, oldPath); if err != nil { return }
fromStream_renameOld ==
    /\ pc = "fs_rename_old"
    /\ \E ok \in Oks :
         IF ok /\ Exists(fs.target)
         THEN /\ fs' = [fs EXCEPT !.old = fs.target, !.target = Absent]
              /\ run' = [run EXCEPT !.err = Nil]
              /\ pc' = AfterRenameOld(Nil)
         ELSE /\ fs' = fs
              /\ run' = [run EXCEPT !.err = OsErr("rename target old")]
              /\ pc' = AfterRenameOld(OsErr("rename target old"))
    /\ log' = Append(log, "rename target old")
    /\ UNCHANGED <<api, u, cktime, now, ret, env>>

\* a fromStream that renames the backup to the target whatever the second
\* rename answered
AfterRenameNew_rollback(err) == "fs_rollback"

\* if err != nil { errRecover = os.Rename(oldPath, updatePath) } else { ... }
AfterRenameNew(err) == IF err # Nil THEN "fs_rollback" ELSE "fs_cleanup"

\* err = os.Rename(newPath, updatePath)
fromStream_renameNew ==
    /\ pc = "fs_rename_new"
    /\ \E ok \in Oks :
         IF ok /\ Exists(fs.new)
         THEN /\ fs' = [fs EXCEPT !.target = fs.new, !.new = Absent]
              /\ run' = [run EXCEPT !.err = Nil]
              /\ pc' = AfterRenameNew(Nil)
         ELSE /\ fs' = fs
              /\ run' = [run EXCEPT !.err = OsErr("rename new target")]
              /\ pc' = AfterRenameNew(OsErr("rename new target"))
    /\ log' = Append(log, "rename new target")
    /\ UNCHANGED <<api, u, cktime, now, ret, env>>

\* errRecover = os.Rename(oldPath, updatePath)
fromStream_rollback ==
    /\ pc = "fs_rollback"
    /\ \E ok \in Oks :
         IF ok
         THEN /\ fs' = [fs EXCEPT !.target = fs.old, !.old = Absent]
              /\ run' = run
         ELSE /\ fs' = fs
              /\ run' = [run EXCEPT !.errRecover = OsErr("rename old target")]
    /\ log' = Append(log, "rename old target")
    /\ pc' = "fs_return"
    /\ UNCHANGED <<api, u, cktime, now, ret, env>>

\* errRemove := os.Remove(oldPath); if errRemove != nil { _ = hideFile(oldPath) }
fromStream_cleanup ==
    /\ pc = "fs_cleanup"
    /\ \E ok \in Oks :
         /\ fs' = IF ok THEN [fs EXCEPT !.old = Absent] ELSE fs
         /\ log' = IF ok THEN Append(log, "remove old")
                   ELSE Append(Append(log, "remove old"), "hide old")
    /\ pc' = "fs_return"
    /\ UNCHANGED <<api, u, cktime, now, run, ret, env>>

\* an install that leaves the handle on the target as it is
Close_skip(handle) == handle

\* old.Close()
Close(handle) == "closed"

---------------------------------------------------------------------------
(* Updater.Update of the legacy revision, src/unnamed/part_009 198-266 *)

\* a version test that never finds the current version
SameVersion_never(info, current) == FALSE

\* if u.Info.Version == u.CurrentVersion
SameVersion(info, current) == info.Version = current

\* a run that ends at a failed patch step
AfterPatch_giveUp(err) == IF err # Nil THEN "done" ELSE "install"

\* if err != nil { bin, err = the full binary } after the patch step
AfterPatch(err) == IF err # Nil THEN "full" ELSE "install"

\* a caller invokes Update directly
Update_call ==
    /\ Idle
    /\ api \in {"legacy", "result"}
    /\ ~env.sched
    /\ ret.calls < env.calls
    /\ pc' = "Update"
    /\ run' = Call("Update")
    /\ log' = <<>>
    /\ UNCHANGED <<api, u, fs, cktime, now, ret, env>>

\* os.Executable; u.fetchInfo(); if u.Info.Version == u.CurrentVersion { return nil }
Update_fetchInfo ==
    /\ pc = "Update"
    /\ api = "legacy"
    /\ \/ /\ env.faults
          /\ Return(run, log, OsErr("executable"), FALSE)
          /\ u' = u
       \/ \E reply \in RequesterReplies(u.Requester, "info") :
            LET r == fetchInfo(u.Info, u.Requester, reply)
                l == Append(log, "fetch info")
                g == [run EXCEPT !.infoGot = reply,
                                 !.urls = Append(@, ManifestAddress(u))]
            IN /\ u' = [u EXCEPT !.Info = r.Info]
               /\ IF r.err # Nil THEN Return(g, l, r.err, FALSE)
                  ELSE IF SameVersion(r.Info, u.CurrentVersion)
                       THEN Return([g EXCEPT !.info = r.Info], l, Nil, FALSE)
                  ELSE /\ pc' = "open"
                       /\ log' = l
                       /\ run' = [g EXCEPT !.info = r.Info]
                       /\ ret' = ret
    /\ UNCHANGED <<api, fs, cktime, now, env>>

\* old, err := os.Open(path); defer old.Close()
Update_open ==
    /\ pc = "open"
    /\ api = "legacy"
    /\ \E ok \in Oks :
         IF ok /\ Exists(fs.target)
         THEN /\ run' = [run EXCEPT !.old = "open", !.deferClose = TRUE]
              /\ log' = Append(log, "open old")
              /\ pc' = "patch"
              /\ ret' = ret
         ELSE Return(run, Append(log, "open old"), OsErr("open old"), FALSE)
    /\ UNCHANGED <<api, u, fs, cktime, now, env>>

\* bin, err := u.fetchAndVerifyPatch(old)
Update_patch ==
    /\ pc = "patch"
    /\ api = "legacy"
    /\ \E reply \in RequesterReplies(u.Requester, "patch") :
       \E r \in fetchAndVerifyPatch(Data(fs.target), u.Info, u.Requester, reply) :
         LET got == PatchServed(reply, Data(fs.target), u.Info) IN
         /\ run' = IF r.err # Nil
                   THEN [run EXCEPT !.patchErr = r.err, !.patchGot = got,
                                   !.urls = Append(@, PatchAddress(u, u.Info))]
                   ELSE [run EXCEPT !.bin = r.bin, !.from = "patch", !.patchGot = got,
                                   !.urls = Append(@, PatchAddress(u, u.Info))]
         /\ pc' = AfterPatch(r.err)
    /\ log' = Append(log, "fetch patch")
    /\ UNCHANGED <<api, u, fs, cktime, now, ret, env>>

\* a return of the patch step's error
FullFailure_patchErr(patchErr, fullErr) == patchErr

\* which error Update returns when the full-binary step fails too
FullFailure(patchErr, fullErr) == fullErr

\* bin, err = u.fetchAndVerifyFullBin(); if err != nil { return err }
Update_full ==
    /\ pc = "full"
    /\ api = "legacy"
    /\ \E reply \in RequesterReplies(u.Requester, "bin") :
         LET r == fetchAndVerifyFullBin(u.Info, u.Requester, reply)
             l == Append(log, "fetch bin")
             got == FullServed(reply, u.Info)
         IN IF r.err # Nil
            THEN Return([run EXCEPT !.fullErr = r.err, !.fullGot = got,
                                   !.urls = Append(@, BinAddress(u, u.Info))], l,
                        FullFailure(run.patchErr, r.err), FALSE)
            ELSE /\ run' = [run EXCEPT !.bin = r.bin, !.from = "full",
                                       !.patchErr = Nil, !.fullGot = got,
                                   !.urls = Append(@, BinAddress(u, u.Info))]
                 /\ pc' = "install"
                 /\ log' = l
                 /\ ret' = ret
    /\ UNCHANGED <<api, u, fs, cktime, now, env>>

\* old.Close(); err, errRecover := fromStream(bytes.NewBuffer(bin))
Update_install ==
    /\ pc = "install"
    /\ api = "legacy"
    /\ run' = [run EXCEPT !.old = Close(@), !.orig = fs.target]
    /\ log' = Append(Append(log, "close old"), "fromStream")
    /\ pc' = "fs_open"
    /\ UNCHANGED <<api, u, fs, cktime, now, ret, env>>

\* the error Update returns after the installer
InstallError(err, errRecover) ==
    IF errRecover # Nil THEN UpdateAndRecoveryErrors(err, errRecover) ELSE err

\* if errRecover != nil {...}; if err != nil {...}; u.OnSuccessfulUpdate(); return nil
Update_finish ==
    /\ pc = "fs_return"
    /\ api = "legacy"
    /\ LET e == InstallError(run.err, run.errRecover) IN
       IF e # Nil THEN Return(run, log, e, FALSE)
       ELSE Return(run, IF u.OnSuccessfulUpdate THEN Append(log, "hook") ELSE log,
                   Nil, FALSE)
    /\ UNCHANGED <<api, u, fs, cktime, now, env>>

---------------------------------------------------------------------------
(* Updater.Update of the "result" revision, src/selfupdate/selfupdate.go 197-256 *)

\* osext.Executable(); old, err := os.Open(path); defer old.Close()
ResultUpdate_open ==
    /\ pc = "Update"
    /\ api = "result"
    /\ \/ /\ env.faults
          /\ Return(run, log, OsErr("executable"), FALSE)
       \/ \E ok \in Oks :
            IF ok /\ Exists(fs.target)
            THEN /\ run' = [run EXCEPT !.old = "open", !.deferClose = TRUE]
                 /\ log' = Append(log, "open old")
                 /\ pc' = "fetchInfo"
                 /\ ret' = ret
            ELSE Return(run, Append(log, "open old"), OsErr("open old"), FALSE)
    /\ UNCHANGED <<api, u, fs, cktime, now, env>>

\* u.fetchInfo(); if u.Info.Version == u.CurrentVersion { u.Result = AtLatestResult; return nil }
ResultUpdate_fetchInfo ==
    /\ pc = "fetchInfo"
    /\ api = "result"
    /\ \E reply \in RequesterReplies(u.Requester, "info") :
         LET r == fetchInfo(u.Info, u.Requester, reply)
             l == Append(log, "fetch info")
             g == [run EXCEPT !.infoGot = reply,
                                 !.urls = Append(@, ManifestAddress(u))]
         IN IF r.err # Nil
            THEN /\ u' = [u EXCEPT !.Info = r.Info]
                 /\ Return(g, l, r.err, FALSE)
            ELSE IF SameVersion(r.Info, u.CurrentVersion)
            THEN /\ u' = [u EXCEPT !.Info = r.Info, !.Result = "AtLatestResult"]
                 /\ Return([g EXCEPT !.info = r.Info], l, Nil, FALSE)
            ELSE /\ u' = [u EXCEPT !.Info = r.Info]
                 /\ pc' = "patch"
                 /\ log' = l
                 /\ run' = [g EXCEPT !.info = r.Info]
                 /\ ret' = ret
    /\ UNCHANGED <<api, fs, cktime, now, env>>

\* bin, err := u.fetchAndVerifyPatch(old); on success successResult = PatchResult
ResultUpdate_patch ==
    /\ pc = "patch"
    /\ api = "result"
    /\ \E reply \in RequesterReplies(u.Requester, "patch") :
       \E r \in fetchAndVerifyPatch(Data(fs.target), u.Info, u.Requester, reply) :
         LET got == PatchServed(reply, Data(fs.target), u.Info) IN
         /\ run' = IF r.err # Nil
                   THEN [run EXCEPT !.patchErr = r.err, !.patchGot = got,
                                   !.urls = Append(@, PatchAddress(u, u.Info))]
                   ELSE [run EXCEPT !.bin = r.bin, !.from = "patch", !.patchGot = got,
                                   !.urls = Append(@, PatchAddress(u, u.Info))]
         /\ pc' = AfterPatch(r.err)
    /\ log' = Append(log, "fetch patch")
    /\ UNCHANGED <<api, u, fs, cktime, now, ret, env>>

\* bin, err = u.fetchAndVerifyFullBin(); on success successResult = FullBinResult
ResultUpdate_full ==
    /\ pc = "full"
    /\ api = "result"
    /\ \E reply \in RequesterReplies(u.Requester, "bin") :
         LET r == fetchAndVerifyFullBin(u.Info, u.Requester, reply)
             l == Append(log, "fetch bin")
             got == FullServed(reply, u.Info)
         IN IF r.err # Nil
            THEN Return([run EXCEPT !.fullErr = r.err, !.fullGot = got,
                                   !.urls = Append(@, BinAddress(u, u.Info))], l,
                        FullFailure(run.patchErr, r.err), FALSE)
            ELSE /\ run' = [run EXCEPT !.bin = r.bin, !.from = "full",
                                       !.patchErr = Nil, !.fullGot = got,
                                   !.urls = Append(@, BinAddress(u, u.Info))]
                 /\ pc' = "install"
                 /\ log' = l
                 /\ ret' = ret
    /\ UNCHANGED <<api, u, fs, cktime, now, env>>

\* old.Close(); err, errRecover := up.FromStream(bytes.NewBuffer(bin))
ResultUpdate_install ==
    /\ pc = "install"
    /\ api = "result"
    /\ run' = [run EXCEPT !.old = Close(@), !.orig = fs.target]
    /\ log' = Append(Append(log, "close old"), "fromStream")
    /\ pc' = "fs_open"
    /\ UNCHANGED <<api, u, fs, cktime, now, ret, env>>

\* the ResultType of the step that produced the installed bytes
SuccessResult(from) == IF from = "patch" THEN "PatchResult" ELSE "FullBinResult"

\* if errRecover != nil {...}; if err != nil {...}; u.Result = successResult; return nil
ResultUpdate_finish ==
    /\ pc = "fs_return"
    /\ api = "result"
    /\ LET e == InstallError(run.err, run.errRecover) IN
       IF e # Nil
       THEN /\ Return(run, log, e, FALSE)
            /\ u' = u
       ELSE /\ Return(run, log, Nil, FALSE)
            /\ u' = [u EXCEPT !.Result = SuccessResult(run.from)]
    /\ UNCHANGED <<api, fs, cktime, now, env>>

---------------------------------------------------------------------------
(* Updater.Run of the new revision, src/selfupdate/selfupdate.go 515-586 *)

Run_call ==
    /\ Idle
    /\ api = "new"
    /\ ret.calls < env.calls
    /\ pc' = "Run"
    /\ run' = Call("Run")
    /\ log' = <<>>
    /\ UNCHANGED <<api, u, fs, cktime, now, ret, env>>

\* whether fetchInfo reaches the requester: the platform resolver and the
\* requester are both set
Requests(updater) == updater.platformResolver # "nil" /\ updater.Requester # "nil"

\* info, err := u.fetchInfo(); if info.Version == u.currentVersion { return false, nil }
Run_fetchInfo ==
    /\ pc = "Run"
    /\ api = "new"
    /\ IF u.platformResolver = "nil"
       THEN Return(run, log, Err("Unable to reolve platform because resolver is nil"), FALSE)
       ELSE \E reply \in RequesterReplies(u.Requester, "info") :
            LET r == run_fetchInfo(u.Requester, reply)
                l == IF Requests(u) THEN Append(log, "fetch info") ELSE log
                g == IF Requests(u)
                     THEN [run EXCEPT !.infoGot = reply,
                                      !.urls = Append(@, ManifestAddress(u))]
                     ELSE run
            IN IF r.err # Nil THEN Return(g, l, r.err, FALSE)
               ELSE IF SameVersion(r.Info, u.CurrentVersion)
                    THEN Return([g EXCEPT !.info = r.Info], l, Nil, FALSE)
               ELSE /\ run' = [g EXCEPT !.info = r.Info]
                    /\ pc' = "resolve"
                    /\ log' = l
                    /\ ret' = ret
    /\ UNCHANGED <<api, u, fs, cktime, now, env>>

\* oldPath, err := u.updateableResolver.Resolve(); up.Target(oldPath);
\* (the call panics when the resolver is nil: the run ends there, and the
\* caller does not go on)
\* up.CanUpdate() (go-update's original of canUpdate); old, err := os.Open(oldPath)
Run_resolve ==
    /\ pc = "resolve"
    /\ api = "new"
    /\ \/ /\ u.updateableResolver = "nil"
          /\ Return(run, log, NilDereference, FALSE)
          /\ fs' = fs
       \/ /\ u.updateableResolver # "nil"
          /\ env.faults
          /\ Return(run, Append(log, "resolve"), OsErr("executable"), FALSE)
          /\ fs' = fs
       \/ /\ u.updateableResolver # "nil"
          /\ \E c \in canUpdate(fs) :
               /\ fs' = c.fs
               /\ IF c.err # Nil
                  THEN Return(run, Append(log, "resolve"), c.err, FALSE)
                  ELSE \E ok \in Oks :
                       IF ok /\ Exists(fs.target)
                       THEN /\ run' = [run EXCEPT !.old = "open"]
                            /\ log' = Append(Append(log, "resolve"), "open old")
                            /\ pc' = "patch"
                            /\ ret' = ret
                       ELSE Return(run, Append(Append(log, "resolve"), "open old"),
                                   OsErr("open old"), FALSE)
    /\ UNCHANGED <<api, u, cktime, now, env>>

\* bin, err := u.getExeWithPatchForVersion(old, info)
Run_patch ==
    /\ pc = "patch"
    /\ api = "new"
    /\ \E reply \in RequesterReplies(u.Requester, "patch") :
       \E r \in getExeWithPatchForVersion(Data(fs.target), run.info, u.Requester, reply) :
         LET got == PatchServed(reply, Data(fs.target), run.info) IN
         /\ run' = IF r.err # Nil
                   THEN [run EXCEPT !.patchErr = r.err, !.patchGot = got,
                                   !.urls = Append(@, PatchAddress(u, run.info))]
                   ELSE [run EXCEPT !.bin = r.bin, !.from = "patch", !.patchGot = got,
                                   !.urls = Append(@, PatchAddress(u, run.info))]
         /\ pc' = AfterPatch(r.err)
    /\ log' = Append(log, "fetch patch")
    /\ UNCHANGED <<api, u, fs, cktime, now, ret, env>>

\* bin, err = u.getEntireBinaryForVersion(info); if err != nil { return false, err }
Run_full ==
    /\ pc = "full"
    /\ api = "new"
    /\ \E reply \in RequesterReplies(u.Requester, "bin") :
         LET r == getEntireBinaryForVersion(run.info, u.Requester, reply)
             l == Append(log, "fetch bin")
             got == FullServed(reply, run.info)
         IN IF r.err # Nil
            THEN Return([run EXCEPT !.fullErr = r.err, !.fullGot = got,
                                   !.urls = Append(@, BinAddress(u, run.info))], l,
                        FullFailure(run.patchErr, r.err), FALSE)
            ELSE /\ run' = [run EXCEPT !.bin = r.bin, !.from = "full",
                                       !.patchErr = Nil, !.fullGot = got,
                                   !.urls = Append(@, BinAddress(u, run.info))]
                 /\ pc' = "install"
                 /\ log' = l
                 /\ ret' = ret
    /\ UNCHANGED <<api, u, fs, cktime, now, env>>

\* old.Close(); err, errRecover := up.FromStream(bytes.NewBuffer(bin))
Run_install ==
    /\ pc = "install"
    /\ api = "new"
    /\ run' = [run EXCEPT !.old = Close(@), !.orig = fs.target]
    /\ log' = Append(Append(log, "close old"), "fromStream")
    /\ pc' = "fs_open"
    /\ UNCHANGED <<api, u, fs, cktime, now, ret, env>>

\* a Run that leaves the current version as it was
VersionAfterRun_kept(current, info) == current

\* u.currentVersion = info.Version
VersionAfterRun(current, info) == info.Version

\* if errRecover != nil {...}; if err != nil {...};
\* u.currentVersion = info.Version; return true, nil
Run_finish ==
    /\ pc = "fs_return"
    /\ api = "new"
    /\ LET e == InstallError(run.err, run.errRecover) IN
       IF e # Nil
       THEN /\ Return(run, log, e, FALSE)
            /\ u' = u
       ELSE /\ Return(run, log, Nil, TRUE)
            /\ u' = [u EXCEPT !.CurrentVersion =
                                  VersionAfterRun(u.CurrentVersion, run.info)]
    /\ UNCHANGED <<api, fs, cktime, now, env>>

---------------------------------------------------------------------------
(* Updater.UpdateAvailable of the new revision, src/selfupdate/selfupdate.go *)
(* 504-513: a value receiver                                                 *)

\* an answer that tells whether the versions are the same
Available_same(info, current) == info.Version = current

\* return info.Version != u.currentVersion, nil
Available(info, current) == info.Version # current

\* info, err := u.fetchInfo(); if err != nil { return false, err }
UpdateAvailable_call ==
    /\ Idle
    /\ api = "new"
    /\ pc' = "done"
    /\ IF u.platformResolver = "nil"
       THEN /\ run' = Call("UpdateAvailable")
            /\ log' = <<>>
            /\ ret' = [ret EXCEPT !.err =
                                   Err("Unable to reolve platform because resolver is nil")]
       ELSE \E reply \in RequesterReplies(u.Requester, "info") :
            LET r == run_fetchInfo(u.Requester, reply)
                g == IF Requests(u)
                     THEN [Call("UpdateAvailable") EXCEPT
                             !.infoGot = reply, !.urls = <<ManifestAddress(u)>>]
                     ELSE Call("UpdateAvailable")
            IN /\ log' = IF Requests(u) THEN <<"fetch info">> ELSE <<>>
               /\ ret' = [ret EXCEPT !.err = r.err]
               /\ run' = IF r.err # Nil THEN g
                         ELSE [g EXCEPT !.info = r.Info,
                                        !.available = Available(r.Info, u.CurrentVersion)]
    /\ UNCHANGED <<api, u, fs, cktime, now, env>>

---------------------------------------------------------------------------
(* The Set methods of the new revision, src/selfupdate/selfupdate.go 450-502: *)
(* each has a value receiver and answers an Updater literal                  *)

\* Updater{}: the fields a literal does not name
ZeroUpdater ==
    [CurrentVersion |-> "", ApiURL |-> "", BinURL |-> "", DiffURL |-> "",
     Requester |-> "nil", updateableResolver |-> "nil", platformResolver |-> "nil",
     CmdName |-> "", ForceCheck |-> FALSE, CheckTime |-> 0, RandomizeTime |-> 0,
     Info |-> ZeroInfo, Result |-> "ErrorResult", OnSuccessfulUpdate |-> FALSE]

SetUpdatableResolver(updater, resolver) ==
    [ZeroUpdater EXCEPT !.CurrentVersion = updater.CurrentVersion,
                        !.ApiURL = updater.ApiURL,
                        !.BinURL = updater.BinURL,
                        !.DiffURL = updater.DiffURL,
                        !.Requester = updater.Requester,
                        !.updateableResolver = resolver,
                        !.platformResolver = updater.platformResolver,
                        !.CmdName = updater.CmdName]

\* a SetRequester whose literal leaves out cmdName
SetRequester_noCmdName(updater, requester) ==
    [ZeroUpdater EXCEPT !.CurrentVersion = updater.CurrentVersion,
                        !.ApiURL = updater.ApiURL,
                        !.BinURL = updater.BinURL,
                        !.DiffURL = updater.DiffURL,
                        !.Requester = requester,
                        !.updateableResolver = updater.updateableResolver,
                        !.platformResolver = updater.platformResolver]

SetRequester(updater, requester) ==
    [ZeroUpdater EXCEPT !.CurrentVersion = updater.CurrentVersion,
                        !.ApiURL = updater.ApiURL,
                        !.BinURL = updater.BinURL,
                        !.DiffURL = updater.DiffURL,
                        !.Requester = requester,
                        !.updateableResolver = updater.updateableResolver,
                        !.platformResolver = updater.platformResolver,
                        !.CmdName = updater.CmdName]

SetPlatformResolver(updater, resolver) ==
    [ZeroUpdater EXCEPT !.CurrentVersion = updater.CurrentVersion,
                        !.ApiURL = updater.ApiURL,
                        !.BinURL = updater.BinURL,
                        !.DiffURL = updater.DiffURL,
                        !.Requester = updater.Requester,
                        !.updateableResolver = updater.updateableResolver,
                        !.platformResolver = resolver,
                        !.CmdName = updater.CmdName]

\* a call of a Set method answers: the receiver is a copy, u stays as it is
Answer(e, a, made) ==
    /\ run' = [Call(e) EXCEPT !.arg = a, !.made = made]
    /\ log' = <<>>
    /\ pc' = "done"
    /\ UNCHANGED <<api, u, fs, cktime, now, ret, env>>

SetUpdatableResolver_call ==
    /\ Idle
    /\ env.chain
    /\ \E resolver \in {"CurrentExe", "custom", "nil"} :
         Answer("SetUpdatableResolver", resolver, SetUpdatableResolver(u, resolver))

SetRequester_call ==
    /\ Idle
    /\ env.chain
    /\ \E requester \in {"HTTPRequester", "custom", "nil"} :
         Answer("SetRequester", requester, SetRequester(u, requester))

SetPlatformResolver_call ==
    /\ Idle
    /\ env.chain
    /\ \E resolver \in {"resolver", "nil"} :
         Answer("SetPlatformResolver", resolver, SetPlatformResolver(u, resolver))

---------------------------------------------------------------------------
(* The check schedule, src/unnamed/part_009 118-173 and 417-440.  A time is *)
(* a number of clock ticks; the schedule file holds whole seconds.          *)

\* time.Time{}
ZeroTime == 0

\* t.Format(time.RFC3339): the text keeps whole seconds
Format(t) == t \div Second

\* time.Parse(time.RFC3339, text)
Parse(sec) == sec * Second

\* the schedule file: absent, unreadable, not a time, or the text of a time
ScheduleFile(st, sec) == [st |-> st, sec |-> sec]

\* a readTime that answers the far future for a missing file too
readTime_missingIsFar(file, clock) ==
    IF file.st = "time" THEN Parse(file.sec) ELSE clock + FarFutureHours * Hour

\* a readTime that answers the zero time for whatever it cannot read or parse
readTime_unreadableIsZero(file, clock) ==
    IF file.st = "time" THEN Parse(file.sec) ELSE ZeroTime

\* a readTime that answers the zero time for a file that holds no time
readTime_corruptIsZero(file, clock) ==
    CASE file.st = "absent" -> ZeroTime
      [] file.st = "unreadable" -> clock + FarFutureHours * Hour
      [] file.st = "corrupt" -> ZeroTime
      [] OTHER -> Parse(file.sec)

readTime(file, clock) ==
    CASE file.st = "absent" -> ZeroTime
      [] file.st = "unreadable" -> clock + FarFutureHours * Hour
      [] file.st = "corrupt" -> clock + FarFutureHours * Hour
      [] OTHER -> Parse(file.sec)

\* ioutil.WriteFile(path, t.Format(RFC3339)) == nil: the file can fail to open,
\* and the write can fail after the file was truncated
writeTime(file, t, outcome) ==
    CASE outcome = "ok" -> [file |-> ScheduleFile("time", Format(t)), ok |-> TRUE]
      [] outcome = "open fails" -> [file |-> file, ok |-> FALSE]
      [] OTHER -> [file |-> ScheduleFile("corrupt", 0), ok |-> FALSE]

WriteOutcomes == {"ok", "open fails", "write fails"}

NextUpdate(file, clock) == readTime(file, clock)

\* a WantUpdate without the test for "dev"
WantUpdate_nodev(updater, file, clock) ==
    ~(~updater.ForceCheck /\ NextUpdate(file, clock) > clock)

\* a WantUpdate that does not look at ForceCheck
WantUpdate_noforce(updater, file, clock) ==
    ~(updater.CurrentVersion = "dev" \/ NextUpdate(file, clock) > clock)

WantUpdate(updater, file, clock) ==
    ~(updater.CurrentVersion = "dev"
      \/ (~updater.ForceCheck /\ NextUpdate(file, clock) > clock))

\* a SetUpdateTime that waits twice the hours drawn
SetUpdateTime_twice(updater, file, clock, jitter, outcome) ==
    writeTime(file, clock + updater.CheckTime * Hour + 2 * jitter * Hour, outcome)

\* a SetUpdateTime that leaves CheckTime out of the wait
SetUpdateTime_nowait(updater, file, clock, jitter, outcome) ==
    writeTime(file, clock + jitter * Hour, outcome)

\* rand.Intn(u.RandomizeTime+1) is the jitter
SetUpdateTime(updater, file, clock, jitter, outcome) ==
    writeTime(file, clock + updater.CheckTime * Hour + jitter * Hour, outcome)

\* os.MkdirAll; if u.WantUpdate() { canUpdate(); u.SetUpdateTime(); u.Update() }
BackgroundRun ==
    /\ Idle
    /\ api = "legacy"
    /\ env.sched
    /\ ret.calls < env.calls
    /\ LET r == [Call("BackgroundRun") EXCEPT !.want = WantUpdate(u, cktime, now)]
       IN \/ /\ Return(r, <<>>, OsErr("mkdir"), FALSE)
             /\ UNCHANGED <<fs, cktime>>
          \/ /\ ~r.want
             /\ Return(r, <<>>, Nil, FALSE)
             /\ UNCHANGED <<fs, cktime>>
          \/ /\ r.want
             /\ \E c \in canUpdate(fs) :
                  /\ fs' = c.fs
                  /\ IF c.err # Nil
                     THEN /\ Return(r, <<"canUpdate">>, c.err, FALSE)
                          /\ cktime' = cktime
                     ELSE \E jitter \in 0..u.RandomizeTime, outcome \in WriteOutcomes :
                            LET w == SetUpdateTime(u, cktime, now, jitter, outcome) IN
                            /\ cktime' = w.file
                            /\ log' = <<"canUpdate", "write cktime">>
                            /\ run' = [r EXCEPT !.wrote = w.ok]
                            /\ pc' = "Update"
                            /\ ret' = ret
    /\ UNCHANGED <<api, u, now, env>>

\* the "result" revision, src/selfupdate/selfupdate.go 113-139: the same, and
\* else { u.Result = NotWantedResult }
ResultBackgroundRun ==
    /\ Idle
    /\ api = "result"
    /\ env.sched
    /\ ret.calls < env.calls
    /\ LET r == [Call("BackgroundRun") EXCEPT !.want = WantUpdate(u, cktime, now)]
       IN \/ /\ Return(r, <<>>, OsErr("mkdir"), FALSE)
             /\ UNCHANGED <<u, fs, cktime>>
          \/ /\ ~r.want
             /\ u' = [u EXCEPT !.Result = "NotWantedResult"]
             /\ Return(r, <<>>, Nil, FALSE)
             /\ UNCHANGED <<fs, cktime>>
          \/ /\ r.want
             /\ u' = u
             /\ \E c \in canUpdate(fs) :
                  /\ fs' = c.fs
                  /\ IF c.err # Nil
                     THEN /\ Return(r, <<"canUpdate">>, c.err, FALSE)
                          /\ cktime' = cktime
                     ELSE \E jitter \in 0..u.RandomizeTime, outcome \in WriteOutcomes :
                            LET w == SetUpdateTime(u, cktime, now, jitter, outcome) IN
                            /\ cktime' = w.file
                            /\ log' = <<"canUpdate", "write cktime">>
                            /\ run' = [r EXCEPT !.wrote = w.ok]
                            /\ pc' = "Update"
                            /\ ret' = ret
    /\ UNCHANGED <<api, now, env>>

\* a direct call of SetUpdateTime, which answers whether the time was written
\* (a program that shares its schedule file calls BackgroundRun only)
SetUpdateTime_call ==
    /\ Idle
    /\ api \in {"legacy", "result"}
    /\ env.sched
    /\ env.peers = <<>>
    /\ \E jitter \in 0..u.RandomizeTime, outcome \in WriteOutcomes :
         LET w == SetUpdateTime(u, cktime, now, jitter, outcome) IN
         /\ cktime' = w.file
         /\ run' = [Call("SetUpdateTime") EXCEPT !.wrote = w.ok]
    /\ log' = <<"write cktime">>
    /\ pc' = "done"
    /\ UNCHANGED <<api, u, fs, now, ret, env>>

\* ClearUpdateState: os.Remove(path), its error dropped
ClearUpdateState ==
    /\ Idle
    /\ api \in {"legacy", "result"}
    /\ env.sched
    /\ env.peers = <<>>
    /\ \E ok \in BOOLEAN :
         cktime' = IF ok THEN ScheduleFile("absent", 0) ELSE cktime
    /\ run' = Call("ClearUpdateState")
    /\ log' = <<"remove cktime">>
    /\ pc' = "done"
    /\ UNCHANGED <<api, u, fs, now, ret, env>>

\* a process that has not yet written the schedule file
IdlePeer == [pc |-> "idle", before |-> ScheduleFile("absent", 0),
             data |-> ScheduleFile("absent", 0)]

\* the file after os.OpenFile with O_TRUNC and before the write: no text of a time
Truncated == ScheduleFile("corrupt", 0)

\* the last schedule that was written whole
WholeSchedule ==
    IF cktime = Truncated /\ \E p \in DOMAIN env.peers : env.peers[p].pc = "truncated"
    THEN env.peers[CHOOSE p \in DOMAIN env.peers : env.peers[p].pc = "truncated"].before
    ELSE cktime

\* SetUpdateTime in another process, first half: the time is computed and
\* ioutil.WriteFile opens the file with O_TRUNC.  The peers move while the
\* process observed is between calls: the steps of a run after its own read
\* and write do not touch the file.
Peer_truncate ==
    /\ Idle
    /\ run.entry = "none"
    /\ \E p \in DOMAIN env.peers :
         /\ env.peers[p].pc = "idle"
         /\ env' = [env EXCEPT !.peers[p] =
                       [pc |-> "truncated",
                        before |-> WholeSchedule,
                        data |-> SetUpdateTime(u, cktime, now, 0, "ok").file]]
    /\ cktime' = Truncated
    /\ UNCHANGED <<api, u, fs, now, pc, run, log, ret>>

\* SetUpdateTime in another process, second half: the write at offset 0 of
\* the text of the time, which has the same length for every time
Peer_write ==
    /\ Idle
    /\ run.entry = "none"
    /\ \E p \in DOMAIN env.peers :
         /\ env.peers[p].pc = "truncated"
         /\ cktime' = env.peers[p].data
         /\ env' = [env EXCEPT !.peers[p].pc = "done"]
    /\ UNCHANGED <<api, u, fs, now, pc, run, log, ret>>

\* the clock advances between calls, by a tick (a part of a second) on the
\* hour or by an hour
ClockEnd == (1 + MaxHours) * Hour

Tick ==
    /\ Idle
    /\ env.sched
    /\ \E d \in {1, Hour} :
         /\ d = 1 => (now % Hour) = 0
         /\ now + d <= ClockEnd
         /\ now' = now + d
    /\ UNCHANGED <<api, u, fs, cktime, pc, run, log, ret, env>>

---------------------------------------------------------------------------
(* FsCacheCheckForUpdateSchedule, src/unnamed/part_011 *)

\* fs.readTime: ioutil.ReadFile, then time.Parse of the text
FsCache_readTime(file) ==
    CASE file.st = "absent" -> [t |-> ZeroTime, err |-> ErrNotExist]
      [] file.st = "unreadable" -> [t |-> ZeroTime, err |-> OsErr("read cktime")]
      [] file.st = "corrupt" -> [t |-> ZeroTime, err |-> Err("parsing time")]
      [] OTHER -> [t |-> Parse(file.sec), err |-> Nil]

\* os.IsNotExist
IsNotExist(err) == err = ErrNotExist

\* timeToCheck, err := fs.readTime(path)
\* if !os.IsNotExist(err) { return false, err }
\* return timeToCheck.After(currentTime), nil
ShouldCheckForUpdate(file, currentTime) ==
    LET r == FsCache_readTime(file) IN
    IF ~IsNotExist(r.err) THEN [should |-> FALSE, err |-> r.err]
    ELSE [should |-> r.t > currentTime, err |-> Nil]

\* a caller asks the schedule at the current time; the path read is relative
\* to the directory of the executable
ShouldCheckForUpdate_call ==
    /\ Idle
    /\ api = "fscache"
    /\ \E executable \in BOOLEAN :
         LET r == IF executable THEN ShouldCheckForUpdate(cktime, now)
                  ELSE [should |-> FALSE, err |-> OsErr("executable")]
         IN /\ run' = [Call("ShouldCheckForUpdate") EXCEPT !.want = r.should]
            /\ ret' = [ret EXCEPT !.err = r.err]
    /\ log' = <<"read cktime">>
    /\ pc' = "done"
    /\ UNCHANGED <<api, u, fs, cktime, now, env>>

\* nextTimeToCheckForUpdates := timeUpdatesWhereChecked.Add(fs.durationBetweenChecks)
\* return ioutil.WriteFile(fs.cachePath, ...Format(time.RFC3339), 0644)
UpdatesChecked(file, timeUpdatesWhereChecked, duration, outcome) ==
    writeTime(file, timeUpdatesWhereChecked + duration, outcome)

\* a caller marks the check done at the current time; the path written is
\* fs.cachePath as it is, relative to the working directory
UpdatesChecked_call ==
    /\ Idle
    /\ api = "fscache"
    /\ \E outcome \in WriteOutcomes :
         LET written == IF env.cwdIsExeDir THEN cktime ELSE env.cwdFile
             w == UpdatesChecked(written, now, env.durationBetweenChecks, outcome)
         IN /\ cktime' = IF env.cwdIsExeDir THEN w.file ELSE cktime
            /\ env' = [env EXCEPT !.cwdFile = IF env.cwdIsExeDir THEN @ ELSE w.file,
                                  !.checked = IF w.ok THEN Some(now) ELSE @]
            /\ run' = [Call("UpdatesChecked") EXCEPT !.wrote = w.ok]
            /\ ret' = [ret EXCEPT !.err = IF w.ok THEN Nil ELSE OsErr("write cktime")]
    /\ log' = <<"write cktime">>
    /\ pc' = "done"
    /\ UNCHANGED <<api, u, fs, now>>

---------------------------------------------------------------------------
(* Specifications *)

NoSchedule == ScheduleFile("absent", 0)

\* the address the examples give for the three kinds of request
UpdateDataURL == "http://updates.yourdomain.com/"

\* the Updater values a program may construct for direct calls
Updaters(a) ==
    [CurrentVersion : {"1.0"},
     ForceCheck : {FALSE},
     CheckTime : {0},
     RandomizeTime : {0},
     Requester : IF a = "new" THEN {"HTTPRequester", "custom", "nil"}
                 ELSE {"nil", "custom"},
     Info : {ZeroInfo},
     Result : {"ErrorResult"},
     OnSuccessfulUpdate : IF a = "legacy" THEN BOOLEAN ELSE {FALSE},
     platformResolver : IF a = "new" THEN {"resolver", "nil"} ELSE {"none"},
     updateableResolver : IF a = "new" THEN {"CurrentExe"} ELSE {"none"},
     ApiURL : IF a = "new" THEN {UpdateDataURL}
              ELSE {"http://api.updates.yourdomain.com/"},
     BinURL : IF a = "new" THEN {UpdateDataURL}
              ELSE {"http://bin.updates.yourdomain.com/"},
     DiffURL : IF a = "new" THEN {UpdateDataURL}
               ELSE {"http://diff.updates.yourdomain.com/"},
     CmdName : {"myapp"}]

\* the Updater values of a program that checks in the background: its waits
\* last MaxHours at most, it sets the hook the old revision offers, and it
\* draws a jitter only where the schedule decides (no ForceCheck)
ScheduledUpdaters(a) ==
    {x \in [CurrentVersion : IF a = "legacy" THEN {"dev", "1.0"} ELSE {"1.0"},
            ForceCheck : IF a = "legacy" THEN BOOLEAN ELSE {FALSE},
            CheckTime : {0, MaxHours},
            RandomizeTime : 0..MaxHours,
            Requester : {"nil"},
            Info : {ZeroInfo},
            Result : {"ErrorResult"},
            OnSuccessfulUpdate : {a = "legacy"},
            platformResolver : {"none"},
            updateableResolver : {"none"},
            ApiURL : {UpdateDataURL},
            BinURL : {UpdateDataURL},
            DiffURL : {UpdateDataURL},
            CmdName : {"myapp"}] :
       /\ x.CheckTime + x.RandomizeTime <= MaxHours
       /\ (x.ForceCheck \/ a = "result") => x.RandomizeTime = 0}

\* the schedule files a program may start with
ScheduleFiles ==
    {ScheduleFile(st, 0) : st \in {"absent", "unreadable", "corrupt"}}
    \cup {ScheduleFile("time", h * SecondsPerHour) : h \in 0..(1 + MaxHours)}

\* direct calls of Update and Run on any server and any file system
InitDirect ==
    /\ api \in {"legacy", "result", "new"}
    /\ u \in Updaters(api)
    /\ env = [served |-> Bins, manifests |-> Manifests(Bins), calls |-> 1,
              faults |-> TRUE, sched |-> FALSE, chain |-> FALSE,
              peers |-> <<>>]
    /\ \E a \in Installed : fs = [target |-> File(a), new |-> Absent, old |-> Absent]
    /\ cktime = NoSchedule

\* a program made as the README shows: NewUpdater, any chain of the Set
\* methods, and Run a first and a second time
InitRepeated ==
    /\ api = "new"
    /\ u \in {x \in Updaters("new") :
                 x.Requester = "HTTPRequester" /\ x.platformResolver = "resolver"}
    /\ env = [served |-> {<<1>>}, manifests |-> ReleasedManifests({<<1>>}),
              calls |-> 2, faults |-> TRUE, sched |-> FALSE, chain |-> TRUE,
              peers |-> <<>>]
    /\ fs = [target |-> File(<<0>>), new |-> Absent, old |-> Absent]
    /\ cktime = NoSchedule

\* a program that calls Update twice on one Updater value, against a server
\* whose manifest may lack a field
InitReused ==
    /\ api \in {"legacy", "result"}
    /\ u \in {[x EXCEPT !.CmdName = name] :
                 x \in {y \in Updaters(api) :
                           y.Requester = "nil" /\ ~y.OnSuccessfulUpdate},
                 name \in {"myapp", "myapp+foo"}}
    /\ env = [served |-> {<<1>>},
              manifests |-> {d \in Manifests({<<1>>}) :
                               d.Sha256 \in {None, Some(Digest(<<1>>))}},
              calls |-> 2, faults |-> TRUE, sched |-> FALSE, chain |-> FALSE,
              peers |-> <<>>]
    /\ fs = [target |-> File(<<0>>), new |-> Absent, old |-> Absent]
    /\ cktime = NoSchedule

\* a program that lives for some hours and checks only in the background
InitScheduled ==
    /\ api \in {"legacy", "result"}
    /\ u \in ScheduledUpdaters(api)
    /\ env = [served |-> {<<1>>},
              manifests |-> ReleasedManifests({<<1>>}) \cup {EmptyManifest},
              calls |-> IF api = "result" THEN 2 ELSE MaxCalls,
              faults |-> FALSE, sched |-> TRUE, chain |-> FALSE, peers |-> <<>>]
    /\ fs = [target |-> File(<<0>>), new |-> Absent, old |-> Absent]
    /\ cktime \in ScheduleFiles

\* a program that checks in the background while two other processes of the
\* same program, started with the same Updater, write the same schedule file
InitShared ==
    /\ api = "legacy"
    /\ u \in {x \in ScheduledUpdaters(api) :
                 /\ x.CurrentVersion = "1.0"
                 /\ ~x.ForceCheck
                 /\ x.CheckTime = MaxHours
                 /\ x.RandomizeTime = 0}
    /\ env = [served |-> {<<1>>}, manifests |-> ReleasedManifests({<<1>>}),
              calls |-> MaxCalls, faults |-> FALSE, sched |-> TRUE, chain |-> FALSE,
              peers |-> <<IdlePeer, IdlePeer>>]
    /\ fs = [target |-> File(<<0>>), new |-> Absent, old |-> Absent]
    /\ cktime \in {NoSchedule, ScheduleFile("time", 0)}

\* a program that keeps its schedule with FsCacheCheckForUpdateSchedule,
\* started in the directory of its executable or in another one
InitFsCache ==
    /\ api = "fscache"
    /\ u = ZeroUpdater
    /\ \E same \in BOOLEAN :
         env = [served |-> {}, manifests |-> {}, calls |-> 0,
                faults |-> FALSE, sched |-> TRUE, chain |-> FALSE, peers |-> <<>>,
                cwdIsExeDir |-> same, cwdFile |-> NoSchedule, checked |-> None,
                durationBetweenChecks |-> MaxHours * Hour]
    /\ fs = [target |-> File(<<0>>), new |-> Absent, old |-> Absent]
    /\ cktime \in {NoSchedule, ScheduleFile("corrupt", 0)}

Init ==
    /\ \/ InitDirect \/ InitScheduled \/ InitRepeated \/ InitReused \/ InitShared
       \/ InitFsCache
    /\ now = Hour
    /\ pc = "idle"
    /\ run = Run0
    /\ log = <<>>
    /\ ret = NoRet

Next ==
    \/ BackgroundRun
    \/ ResultBackgroundRun
    \/ SetUpdateTime_call
    \/ ClearUpdateState
    \/ Tick
    \/ Peer_truncate
    \/ Peer_write
    \/ ShouldCheckForUpdate_call
    \/ UpdatesChecked_call
    \/ Caller_next
    \/ Update_call
    \/ Update_fetchInfo
    \/ Update_open
    \/ Update_patch
    \/ Update_full
    \/ Update_install
    \/ Update_finish
    \/ ResultUpdate_open
    \/ ResultUpdate_fetchInfo
    \/ ResultUpdate_patch
    \/ ResultUpdate_full
    \/ ResultUpdate_install
    \/ ResultUpdate_finish
    \/ Run_call
    \/ Run_fetchInfo
    \/ Run_resolve
    \/ Run_patch
    \/ Run_full
    \/ Run_install
    \/ Run_finish
    \/ UpdateAvailable_call
    \/ SetUpdatableResolver_call
    \/ SetRequester_call
    \/ SetPlatformResolver_call
    \/ fromStream_open
    \/ fromStream_copy
    \/ fromStream_removeOld
    \/ fromStream_renameOld
    \/ fromStream_renameNew
    \/ fromStream_rollback
    \/ fromStream_cleanup

Spec == Init /\ [][Next]_vars

---------------------------------------------------------------------------
(* Properties of an update run *)

\* the patch step of the current run was taken and did not produce the bytes
PatchFailed == Count(log, "fetch patch") = 1 /\ run.from # "patch"

\* the rollback rename was attempted (the install rename had failed) and left
\* no file at the target
RollbackFailed == Count(log, "rename old target") = 1 /\ ~Exists(fs.target)

\* the installer made both renames of an install and neither failed
RenamesSucceeded ==
    Count(log, "rename new target") = 1 /\ Count(log, "rename old target") = 0

\* the target holds exactly the bytes the manifest of this run names
TargetIsManifestBinary ==
    Exists(fs.target) /\ Digest(Data(fs.target)) = run.info.Sha256

InstallerKeepsTarget ==
    pc = "fs_return" =>
        IF RollbackFailed THEN run.errRecover # Nil
        ELSE fs.target \in {run.orig, File(run.bin)}

\* fromStream of the legacy Updater returns no error although io.Copy failed:
\* the target holds neither the original nor the new bytes
TruncatedInstall ==
    /\ pc = "fs_return"
    /\ api = "legacy"
    /\ run.copyErr # Nil
    /\ run.err = Nil /\ run.errRecover = Nil
    /\ fs.target \notin {run.orig, File(run.bin)}

\* C3: when the fetched manifest names the current version the run has ended
\* with a nil error and the no-update outcome (not updated, AtLatestResult,
\* no success hook), it made no patch request, no full-binary request and no
\* install, and the target is the file the run started with.
NoUpdateAtLatestVersion ==
    (run.entry # "none" /\ run.info # ZeroInfo
       /\ run.info.Version = run.u0.CurrentVersion) =>
        /\ pc = "done"
        /\ ret.err = Nil
        /\ ~ret.updated
        /\ api = "result" => u.Result = "AtLatestResult"
        /\ \A i \in 1..Len(log) :
             log[i] \notin {"fetch patch", "fetch bin", "fromStream", "hook"}
        /\ fs.target = run.fs0.target

\* a run that fetched a manifest naming the current version
RunAtLatestVersion ==
    /\ pc = "done"
    /\ run.entry # "none"
    /\ run.info.Version = run.u0.CurrentVersion
    /\ Count(log, "fetch info") = 1

\* C4: when the rename of the new file onto the target failed and the rollback
\* rename failed too, the error the run returns carries both errors, the
\* install error and the rollback error; it is neither of them alone nor nil.
BothRenameErrorsReported ==
    (pc = "done" /\ RollbackFailed) =>
        /\ ret.err.msg = "update and recovery errors"
        /\ ret.err.args = <<OsErr("rename new target"), OsErr("rename old target")>>

\* a run that ended after both renames failed
RunWithFailedRollback == pc = "done" /\ RollbackFailed /\ Count(log, "rename new target") = 1

\* C5: when the patch step failed and the full-binary endpoint served intact
\* content whose SHA-256 is not the manifest's checksum, the run has ended
\* with ErrHashMismatch, the installer was not invoked, and the target is the
\* file the run started with.
FullHashMismatchRejected ==
    (PatchFailed /\ run.fullGot = "mismatch") =>
        /\ pc = "done"
        /\ ret.err = ErrHashMismatch
        /\ ~ret.updated
        /\ Count(log, "fromStream") = 0
        /\ fs.target = run.fs0.target

\* a run whose full-binary request was answered with other bytes than the
\* manifest names
RunWithFullHashMismatch ==
    pc = "done" /\ PatchFailed /\ run.fullGot = "mismatch" /\ Count(log, "fetch bin") = 1

\* C6: when the patch endpoint served a patch from the current binary A to a
\* binary B with the manifest's checksum, the run succeeds with the
\* patch-applied outcome, the target holds exactly B, and the full-binary
\* endpoint is not requested.  Stated for the runs in which the installer's
\* two renames succeeded, the reading that asks least of the installer.
ValidPatchInstalls ==
    (pc = "done" /\ run.patchGot = "valid" /\ RenamesSucceeded) =>
        /\ ret.err = Nil
        /\ api = "result" => u.Result = "PatchResult"
        /\ api = "new" => ret.updated
        /\ TargetIsManifestBinary
        /\ Count(log, "fetch bin") = 0

\* Update of the legacy Updater returns nil after a valid patch and two good
\* renames, and the target holds only a part of B
PatchedInstallTruncated ==
    /\ pc = "done"
    /\ api = "legacy"
    /\ run.patchGot = "valid"
    /\ RenamesSucceeded
    /\ ret.err = Nil
    /\ run.copyErr # Nil
    /\ ~TargetIsManifestBinary

\* C7: when the patch request failed, the full-binary endpoint served gzip(B)
\* with B matching the manifest's checksum, and the install renames
\* succeeded, the run succeeds with the full-binary outcome and the target
\* holds exactly B.
FullBinaryInstalls ==
    (pc = "done" /\ run.patchGot = "error" /\ run.fullGot = "match" /\ RenamesSucceeded) =>
        /\ ret.err = Nil
        /\ api = "result" => u.Result = "FullBinResult"
        /\ api = "new" => ret.updated
        /\ TargetIsManifestBinary

\* Update of the legacy Updater returns nil after a failed patch request, a
\* matching full binary and two good renames, and the target holds only a
\* part of B
FullInstallTruncated ==
    /\ pc = "done"
    /\ api = "legacy"
    /\ run.patchGot = "error"
    /\ run.fullGot = "match"
    /\ RenamesSucceeded
    /\ ret.err = Nil
    /\ run.copyErr # Nil
    /\ ~TargetIsManifestBinary

\* C8: when the patch step and the full-binary step both failed, the run has
\* ended with the error of the full-binary step, not the patch step's, with
\* updated = false; the full-binary request was its last request, the
\* installer was not invoked and the target is the file the run started with.
BothFailReturnsFullError ==
    (PatchFailed /\ run.fullGot \notin {"none", "match"}) =>
        /\ pc = "done"
        /\ run.fullErr # Nil
        /\ ret.err = run.fullErr
        /\ ~ret.updated
        /\ Count(log, "fetch patch") = 1 /\ Count(log, "fetch bin") = 1
        /\ \A i \in 1..Len(log) :
             log[i] = "fetch bin" => \A j \in (i + 1)..Len(log) : log[j] = "close old"
        /\ fs.target = run.fs0.target

\* a run whose patch request and full-binary request failed with different errors
RunWithBothRequestsFailed ==
    /\ pc = "done"
    /\ run.patchGot = "error"
    /\ run.fullGot = "error"
    /\ run.patchErr # run.fullErr

---------------------------------------------------------------------------
(* Properties of the check schedule *)

\* C9: with CurrentVersion "dev", WantUpdate is false for every schedule file
\* (absent, unreadable, corrupt, a past or a future time) and both values of
\* ForceCheck, and a BackgroundRun made no request and changed neither the
\* schedule file nor the executable's files.
DevNeverUpdates ==
    u.CurrentVersion = "dev" =>
        /\ ~WantUpdate(u, cktime, now)
        /\ \A f \in ScheduleFiles, force \in BOOLEAN :
             ~WantUpdate([u EXCEPT !.ForceCheck = force], f, now)
        /\ run.entry = "BackgroundRun" =>
             /\ ~run.want
             /\ pc = "done"
             /\ log = <<>>
             /\ cktime = run.ck0
             /\ fs = run.fs0

\* a BackgroundRun of a "dev" build that forces checks and whose schedule
\* file holds a time that has passed
DevBackgroundRunWhenDue ==
    /\ pc = "done"
    /\ run.entry = "BackgroundRun"
    /\ u.CurrentVersion = "dev"
    /\ u.ForceCheck
    /\ cktime.st = "time"
    /\ Parse(cktime.sec) < now

\* C10: with ForceCheck set and CurrentVersion not "dev", WantUpdate is true
\* for every schedule file, a time in the future and a corrupt file included,
\* and so a BackgroundRun wanted the update.
ForceCheckAlwaysWants ==
    (u.ForceCheck /\ u.CurrentVersion # "dev") =>
        /\ WantUpdate(u, cktime, now)
        /\ \A f \in ScheduleFiles : WantUpdate(u, f, now)
        /\ run.entry = "BackgroundRun" => run.want

\* a forced BackgroundRun that found a schedule time in the future
ForcedBackgroundRunBeforeDue ==
    /\ run.entry = "BackgroundRun"
    /\ u.ForceCheck
    /\ u.CurrentVersion # "dev"
    /\ run.ck0.st = "time"
    /\ Parse(run.ck0.sec) > now
    /\ Count(log, "write cktime") = 1

---------------------------------------------------------------------------
(* The check schedule *)

\* a direct call of SetUpdateTime has returned true for an Updater that is not
\* a development build and does not force its checks
ScheduleWritten ==
    /\ pc = "done"
    /\ run.entry = "SetUpdateTime"
    /\ run.wrote
    /\ ~u.ForceCheck
    /\ u.CurrentVersion # "dev"

\* the instants within a second of each whole hour after the clock, up to an
\* hour past the longest wait
LaterTimes(updater, clock) ==
    {t \in {clock + h * Hour + d :
              h \in 0..(updater.CheckTime + updater.RandomizeTime + 1),
              d \in (0 - Second)..Second} : t >= clock}

CheckedAfterClear ==
    /\ pc = "done"
    /\ run.entry = "BackgroundRun"
    /\ run.ck0.st = "absent"
    /\ ~u.ForceCheck
    /\ run.want
    /\ run.wrote

\* C12: right after a BackgroundRun that performed a check from a cleared
\* schedule file with ForceCheck false, NextUpdate is after the current time
\* and WantUpdate is false when CheckTime + RandomizeTime > 0, whatever the
\* jitter, and WantUpdate is true when CheckTime = RandomizeTime = 0
NotDueRightAfterCheck ==
    CheckedAfterClear =>
      /\ u.CheckTime + u.RandomizeTime > 0 =>
            /\ NextUpdate(cktime, now) > now
            /\ ~WantUpdate(u, cktime, now)
      /\ (u.CheckTime = 0 /\ u.RandomizeTime = 0) => WantUpdate(u, cktime, now)

\* a check with CheckTime 0 and a positive RandomizeTime drew the jitter 0:
\* the time it wrote is not after the current time
CheckedWithZeroJitter ==
    /\ CheckedAfterClear
    /\ u.CheckTime = 0
    /\ u.RandomizeTime > 0
    /\ NextUpdate(cktime, now) <= now
    /\ WantUpdate(u, cktime, now)

\* C13: while the schedule file is absent, WantUpdate is true for every
\* version but "dev" at every time, and a BackgroundRun that finds it absent
\* wants the check
AbsentFileIsDue ==
    /\ (cktime.st = "absent" /\ u.CurrentVersion # "dev") => WantUpdate(u, cktime, now)
    /\ (run.entry = "BackgroundRun" /\ run.ck0.st = "absent"
          /\ u.CurrentVersion # "dev") => run.want

\* ClearUpdateState has removed a schedule file that held a time still ahead,
\* for an Updater that does not force its checks
ClearedBeforeDue ==
    /\ pc = "done"
    /\ run.entry = "ClearUpdateState"
    /\ run.ck0.st = "time"
    /\ Parse(run.ck0.sec) > now
    /\ cktime.st = "absent"
    /\ ~u.ForceCheck
    /\ u.CurrentVersion # "dev"

\* the schedule file exists and cannot be read as a time
Unparsable(file) == file.st \in {"unreadable", "corrupt"}

\* C14: while the schedule file exists and cannot be read or parsed and
\* ForceCheck is false, WantUpdate is false, and a BackgroundRun that finds
\* it so makes no manifest request
UnparsableFileIsNotDue ==
    /\ (Unparsable(cktime) /\ ~u.ForceCheck) => ~WantUpdate(u, cktime, now)
    /\ (run.entry = "BackgroundRun" /\ Unparsable(run.ck0) /\ ~u.ForceCheck) =>
          /\ ~run.want
          /\ Count(log, "fetch info") = 0
          /\ pc \in {"idle", "done"}

\* a BackgroundRun of a released version without ForceCheck has returned nil
\* from a schedule file that holds no time
ReturnedOnUnparsableFile ==
    /\ pc = "done"
    /\ run.entry = "BackgroundRun"
    /\ run.ck0.st = "corrupt"
    /\ ~u.ForceCheck
    /\ u.CurrentVersion # "dev"
    /\ ret.err = Nil

---------------------------------------------------------------------------
(* The manifest request *)

\* the request log holds the manifest request and no other request, and the
\* installer was not entered
OnlyManifestRequested ==
    /\ Count(log, "fetch info") = 1
    /\ Count(log, "fetch patch") = 0
    /\ Count(log, "fetch bin") = 0
    /\ Count(log, "fromStream") = 0

\* the manifest request of the current call was answered, without an error,
\* by a JSON document
ManifestDecoded ==
    /\ run.infoGot.err = Nil
    /\ run.infoGot.body.t = "json"

\* the Sha256 field after the decoding: the old and the "result" revision
\* decode into the Updater's Info, the new one into a fresh value
DecodedSha256 ==
    Decode(IF api = "new" THEN ZeroInfo ELSE run.u0.Info, run.infoGot.body).Sha256

EmptyManifestIsNoError ==
    (pc = "done" /\ run.entry = "BackgroundRun" /\ run.want
       /\ run.infoGot = [body |-> EmptyManifest, err |-> Nil]) =>
      /\ ret.err = Nil
      /\ OnlyManifestRequested
      /\ fs.target = run.fs0.target

\* a BackgroundRun of an Updater that never held a manifest got the empty
\* JSON object and returned the error of the checksum's length
EmptyManifestRejected ==
    /\ pc = "done"
    /\ run.entry = "BackgroundRun"
    /\ run.want
    /\ run.u0.Info = ZeroInfo
    /\ run.infoGot = [body |-> EmptyManifest, err |-> Nil]
    /\ ret.err = ErrBadCmdHash

\* C17: when the configured Requester answers the manifest request with a nil
\* body and a nil error, the call fails with the error of the nil ReadCloser,
\* reports no update and makes no further request
NilBodyFailsRun ==
    (u.Requester = "custom" /\ run.infoGot = [body |-> NilBody, err |-> Nil]) =>
      /\ pc = "done"
      /\ ret.err = ErrNilReadCloser
      /\ ~ret.updated
      /\ OnlyManifestRequested
      /\ Count(log, "hook") = 0
      /\ fs.target = run.fs0.target

\* a call has returned after its Requester answered the manifest request
\* with a nil body and a nil error
RunWithNilBody ==
    /\ pc = "done"
    /\ u.Requester = "custom"
    /\ run.infoGot = [body |-> NilBody, err |-> Nil]

---------------------------------------------------------------------------
(* The hook of a successful update *)

\* how often the call invoked u.OnSuccessfulUpdate
HookCalls == Count(log, "hook")

\* the position of the first entry e of the log, 0 when there is none
FirstAt(l, e) ==
    IF Count(l, e) = 0 THEN 0
    ELSE CHOOSE i \in 1..Len(l) : l[i] = e /\ \A j \in 1..(i - 1) : l[j] # e

\* the installer wrote the new bytes, put them in the place of the target
\* and met no error
InstalledWithoutError ==
    /\ Count(log, "rename new target") = 1
    /\ run.copyErr = Nil
    /\ run.err = Nil
    /\ run.errRecover = Nil

\* C18: a run of an Updater with the hook set invokes it exactly once when the
\* installer replaced the target without error and never otherwise, only
\* after the replacement, and never in a run that ends at the latest
\* version, not due, or with an error
HookIffInstalledWithoutError ==
    (api = "legacy" /\ u.OnSuccessfulUpdate) =>
      /\ HookCalls <= 1
      /\ pc \notin {"idle", "done"} => HookCalls = 0
      /\ pc = "done" /\ run.entry \in {"Update", "BackgroundRun"} =>
            /\ HookCalls = 1 <=> InstalledWithoutError
            /\ HookCalls = 1 => FirstAt(log, "rename new target") < FirstAt(log, "hook")
            /\ ret.err # Nil => HookCalls = 0
            /\ (run.entry = "BackgroundRun" /\ ~run.want) => HookCalls = 0
            /\ (Count(log, "fetch info") = 1 /\ SameVersion(u.Info, u.CurrentVersion)
                  /\ Count(log, "fromStream") = 0) => HookCalls = 0

\* the hook was invoked in a run whose installer failed to write all the new
\* bytes
HookAfterTruncatedInstall ==
    /\ pc = "done"
    /\ api = "legacy"
    /\ HookCalls = 1
    /\ run.copyErr # Nil
    /\ ret.err = Nil

---------------------------------------------------------------------------
(* Run and its answer *)

\* the installer renamed the new file onto the target in this call
TargetReplaced ==
    /\ Count(log, "rename new target") = 1
    /\ Count(log, "rename old target") = 0

\* the manifest request of this call was answered by the manifest of the
\* earlier Run that answered (true, nil)
SameManifestAgain ==
    /\ ret.applied.t = "json"
    /\ run.infoGot = [body |-> ret.applied, err |-> Nil]

\* C19: Run answers updated = true exactly when the target was replaced in
\* the call; when it answers (true, nil) the current version is the
\* manifest's; and a later Run that gets the same manifest answers
\* (false, nil), makes the manifest request only and leaves the files alone
SecondRunIsNoUpdate ==
    (api = "new" /\ run.entry = "Run") =>
      /\ pc = "done" => (ret.updated <=> TargetReplaced)
      /\ (pc = "done" /\ ret.updated) =>
            /\ ret.err = Nil
            /\ run.infoGot.body.t = "json"
            /\ u.CurrentVersion = Decode(ZeroInfo, run.infoGot.body).Version
      /\ SameManifestAgain =>
            /\ pc = "done"
            /\ ~ret.updated
            /\ ret.err = Nil
            /\ log = <<"fetch info">>
            /\ fs = run.fs0

\* a second Run has returned that got the manifest the first Run applied
SecondRunAgainstSameManifest ==
    /\ pc = "done"
    /\ api = "new"
    /\ ret.calls = 2
    /\ SameManifestAgain

---------------------------------------------------------------------------
(* The Set methods *)

\* the field of the Updater a Set method is about
FieldOf(e) ==
    CASE e = "SetUpdatableResolver" -> "updateableResolver"
      [] e = "SetRequester" -> "Requester"
      [] e = "SetPlatformResolver" -> "platformResolver"

\* C20: the Updater a Set method answers holds the argument in the field the
\* method is about and the receiver's value in every other field, and the
\* receiver is as it was
SettersChangeOneField ==
    (pc = "done" /\ run.entry \in Setters) =>
      /\ u = run.u0
      /\ DOMAIN run.made = DOMAIN run.u0
      /\ \A f \in DOMAIN run.u0 :
            run.made[f] = IF f = FieldOf(run.entry) THEN run.arg ELSE run.u0[f]

\* SetRequester has answered an Updater with another requester than the
\* receiver's, after a Run had changed the receiver's current version
RequesterSetAfterRun ==
    /\ pc = "done"
    /\ run.entry = "SetRequester"
    /\ run.arg # run.u0.Requester
    /\ ret.calls > 0
    /\ run.u0.CurrentVersion = "2.0"

---------------------------------------------------------------------------
(* UpdateAvailable *)

---------------------------------------------------------------------------
(* C23: within one run the manifest is requested at api + escape(app) + "/" *)
(* + escape(platform) + ".json", the patch at diff + escape(app) + "/" +    *)
(* escape(current version) + "/" + escape(manifest version) + "/" +         *)
(* escape(platform), and the full binary at bin + escape(app) + "/" +       *)
(* escape(manifest version) + "/" + escape(platform) + ".gz"; the app name  *)
(* "myapp+foo" is requested as "myapp%2Bfoo".                               *)

\* the requests of the run so far, in order
Requested == SelectSeq(log, LAMBDA e : e \in {"fetch info", "fetch patch", "fetch bin"})

\* the manifest the run decoded
ManifestOfRun == IF api = "new" THEN run.info ELSE u.Info

\* where the claim puts a request of one kind of the run in progress
ClaimedAddress(kind) ==
    CASE kind = "fetch info" ->
           <<run.u0.ApiURL>> \o QueryEscape(run.u0.CmdName) \o <<"/">>
             \o QueryEscape(plat) \o <<".json">>
      [] kind = "fetch patch" ->
           <<run.u0.DiffURL>> \o QueryEscape(run.u0.CmdName) \o <<"/">>
             \o QueryEscape(run.u0.CurrentVersion) \o <<"/">>
             \o QueryEscape(ManifestOfRun.Version) \o <<"/">> \o QueryEscape(plat)
      [] kind = "fetch bin" ->
           <<run.u0.BinURL>> \o QueryEscape(run.u0.CmdName) \o <<"/">>
             \o QueryEscape(ManifestOfRun.Version) \o <<"/">>
             \o QueryEscape(plat) \o <<".gz">>

RequestsAddressedAsClaimed ==
    (run.entry # "none" /\ (run.urls # <<>> \/ log # <<>>)) =>
      LET req == Requested IN
      /\ Len(run.urls) = Len(req)
      /\ \A i \in 1..Len(run.urls) : run.urls[i] = ClaimedAddress(req[i])
      /\ (run.u0.CmdName = "myapp+foo" /\ Len(run.urls) > 0) =>
           run.urls[1] = <<run.u0.ApiURL, "myapp", "%2B", "foo", "/", plat, ".json">>

\* a run of the app "myapp+foo" that requested manifest, patch and full binary
ThreeRequestsOfEscapedName ==
    /\ run.entry # "none"
    /\ run.u0.CmdName = "myapp+foo"
    /\ Requested = <<"fetch info", "fetch patch", "fetch bin">>
    /\ Len(run.urls) = 3

---------------------------------------------------------------------------
(* C24: in every run the installer is invoked only with bytes whose SHA-256 *)
(* equals the checksum of the manifest fetched in that run, on the patch    *)
(* path and on the full-binary path alike.                                  *)

\* the installer of the run in progress has been invoked
InstallerInvoked == run.entry # "none" /\ Count(log, "fromStream") > 0

InstallerGetsBytesOfFetchedChecksum ==
    InstallerInvoked =>
        /\ run.infoGot.body.t = "json"
        /\ run.infoGot.body.Sha256 = Some(Digest(run.bin))

\* the installer invoked in a run whose manifest response names no checksum
InstallAgainstEarlierChecksum ==
    /\ InstallerInvoked
    /\ run.infoGot.body.t = "json"
    /\ run.infoGot.body.Sha256 = None
    /\ Digest(run.bin) = run.u0.Info.Sha256

---------------------------------------------------------------------------
(* C25: in the installer the rename of the new file onto the target is      *)
(* attempted only after the rename of the target to the backup path has     *)
(* succeeded, and the rollback rename only after the rename of the new file *)
(* onto the target has failed; the two install renames are never reordered. *)

\* this step attempts the file operation e
Attempts(e) == Count(log', e) > Count(log, e)

\* the last file operation before this step was e
LastWas(e) == log # <<>> /\ log[Len(log)] = e

RenamesInOrder ==
    [][/\ Attempts("rename new target") =>
            /\ LastWas("rename target old")
            /\ run.err = Nil
            /\ fs.target = Absent
            /\ fs.old = run.orig
       /\ Attempts("rename old target") =>
            /\ LastWas("rename new target")
            /\ run.err = OsErr("rename new target")]_vars

\* an install of the legacy Updater that attempted all three renames
ThreeRenamesAttempted ==
    /\ api = "legacy"
    /\ Count(log, "rename target old") = 1
    /\ Count(log, "rename new target") = 1
    /\ Count(log, "rename old target") = 1

---------------------------------------------------------------------------
(* C26: if the rename of the target to the backup path fails, the installer *)
(* returns that error without attempting the rename of the new file onto    *)
(* the target or any rollback, and the target still holds the original      *)
(* content.                                                                 *)

\* the installer's err is the error of the rename of the target to the backup
BackupRenameFailed == InstallerInvoked /\ run.err = OsErr("rename target old")

FailedBackupRenameEndsInstall ==
    BackupRenameFailed =>
        /\ pc \in {"fs_return", "done", "idle"}
        /\ run.errRecover = Nil
        /\ Count(log, "rename new target") = 0
        /\ Count(log, "rename old target") = 0
        /\ fs.target = run.orig
        /\ pc = "done" => ret.err = OsErr("rename target old")

\* Update of the legacy Updater returned after a failed rename to the backup
UpdateReturnedBackupRenameError ==
    /\ BackupRenameFailed
    /\ api = "legacy"
    /\ pc = "done"
    /\ Exists(fs.new)

---------------------------------------------------------------------------
(* C27: the installer never renames a partially written temp file onto the  *)
(* target: if writing the candidate bytes to the sibling temp file fails,   *)
(* the install is aborted with an error before any rename, and the target   *)
(* keeps its original content.                                              *)

PartialWriteAbortsInstall ==
    (InstallerInvoked /\ run.copyErr # Nil) =>
        /\ Count(log, "rename target old") = 0
        /\ Count(log, "rename new target") = 0
        /\ fs.target = run.orig
        /\ pc = "done" => ret.err # Nil

\* the legacy installer renamed onto the target a file that holds only a part
\* of the candidate bytes
PartialFileRenamedOntoTarget ==
    /\ InstallerInvoked
    /\ api = "legacy"
    /\ run.copyErr = OsErr("write new")
    /\ LastWas("rename new target")
    /\ run.err = Nil
    /\ fs.target # run.orig
    /\ fs.target # File(run.bin)

---------------------------------------------------------------------------
(* C28: when it removes a stale backup file before the swap, the installer  *)
(* ignores a "does not exist" failure, and returns any other failure of the *)
(* removal as an install error without renaming the target.                 *)

\* the removal of the stale backup has been attempted in this install
StaleBackupRemovalTried == InstallerInvoked /\ Count(log, "remove old") > 0

StaleBackupRemovalErrorReturned ==
    StaleBackupRemovalTried =>
        /\ (run.removeErr = ErrNotExist /\ pc = "done") => ret.err # ErrNotExist
        /\ run.removeErr \notin {Nil, ErrNotExist} =>
             /\ Count(log, "rename target old") = 0
             /\ (pc = "done" => ret.err = run.removeErr)

\* the legacy installer renamed the target after the stale backup could not
\* be removed
TargetRenamedOverStaleBackup ==
    /\ StaleBackupRemovalTried
    /\ api = "legacy"
    /\ run.removeErr = OsErr("remove old")
    /\ Count(log, "rename target old") = 1
    /\ run.err = Nil

---------------------------------------------------------------------------
(* C29: in every run that reaches the installer, the read handle the run    *)
(* opened on the target file has been closed before the installer's first   *)
(* rename is attempted.                                                     *)

\* the installer's first rename is the next step, or has been attempted
AtOrAfterFirstRename ==
    InstallerInvoked /\ (pc = "fs_rename_old" \/ Count(log, "rename target old") > 0)

HandleClosedBeforeFirstRename ==
    AtOrAfterFirstRename =>
        /\ run.old = "closed"
        /\ FirstAt(log, "close old") < FirstAt(log, "fromStream")

\* the installer of a run is about to attempt its first rename
InstallerAtFirstRename ==
    /\ InstallerInvoked
    /\ pc = "fs_rename_old"
    /\ Count(log, "close old") = 1

---------------------------------------------------------------------------
(* C30: in any sequence of runs on one Updater value, the manifest version  *)
(* and checksum a run uses come only from the manifest response of that     *)
(* run: a field missing from the current response is never filled with the  *)
(* value an earlier run fetched.                                            *)

\* the run used its manifest to request a patch
ManifestUsed == run.entry # "none" /\ Count(log, "fetch patch") > 0

ManifestIsOfThisRun ==
    ManifestUsed =>
        /\ run.infoGot.body.t = "json"
        /\ ManifestOfRun = Decode(ZeroInfo, run.infoGot.body)

\* a second Update of the legacy Updater requested a patch to the version an
\* earlier response named, the current response naming none
PatchRequestedForEarlierVersion ==
    /\ ManifestUsed
    /\ api = "legacy"
    /\ ret.calls = 1
    /\ run.infoGot.body.t = "json"
    /\ run.infoGot.body.Version = None
    /\ u.Info.Version = run.u0.Info.Version
    /\ u.Info.Version # ""
    /\ run.urls[2] = PatchAddress(run.u0, run.u0.Info)

---------------------------------------------------------------------------
(* C31: in any sequence of BackgroundRun calls on one Updater, after each   *)
(* call the Result field classifies that call: NotWantedResult iff no check *)
(* was due, AtLatestResult iff the manifest version equalled the current    *)
(* version, PatchResult iff the patched binary was installed, FullBinResult *)
(* iff the full binary was installed, ErrorResult iff the call returned an  *)
(* error.                                                                   *)

\* a BackgroundRun of the revision with the Result field has returned
ResultBackgroundRunReturned ==
    api = "result" /\ pc = "done" /\ run.entry = "BackgroundRun"

\* the class of the call that has just returned
ClassOfCall ==
    IF ret.err # Nil THEN "ErrorResult"
    ELSE IF ~run.want THEN "NotWantedResult"
    ELSE IF Count(log, "fromStream") = 0 THEN "AtLatestResult"
    ELSE IF run.from = "patch" THEN "PatchResult"
    ELSE "FullBinResult"

ResultClassifiesCall == ResultBackgroundRunReturned => u.Result = ClassOfCall

\* a second BackgroundRun returned an error and Result still names the
\* outcome of the first
ResultOfEarlierCallAfterError ==
    /\ ResultBackgroundRunReturned
    /\ ret.calls = 2
    /\ ret.err # Nil
    /\ u.Result \in {"NotWantedResult", "AtLatestResult", "PatchResult", "FullBinResult"}

---------------------------------------------------------------------------
(* C32: if persisting the next-check time fails during BackgroundRun, the   *)
(* failure is reported to the caller of BackgroundRun, and the manifest     *)
(* fetch and the update of that run still proceed.                          *)

\* a BackgroundRun has returned whose write of the next-check time failed
ReturnedAfterFailedPersist ==
    /\ pc = "done"
    /\ run.entry = "BackgroundRun"
    /\ Count(log, "write cktime") = 1
    /\ ~run.wrote

FailedPersistIsReported ==
    ReturnedAfterFailedPersist =>
        /\ ret.err # Nil
        /\ Count(log, "fetch info") = 1

\* BackgroundRun of the legacy Updater returned nil although the next-check
\* time could not be written
FailedPersistReturnsNil ==
    /\ ReturnedAfterFailedPersist
    /\ api = "legacy"
    /\ Count(log, "fetch info") = 1
    /\ ret.err = Nil

---------------------------------------------------------------------------
(* C33: when two processes that share one schedule file interleave their    *)
(* reads (readTime) and writes (writeTime, a truncation followed by a       *)
(* write), the only effect is a redundant check: no interleaving leaves the *)
(* file unparsable for good, and none makes a process skip a check that was *)
(* due.                                                                     *)

\* the other processes are between writes
NoWriteInProgress ==
    \A p \in DOMAIN env.peers : env.peers[p].pc # "truncated"

\* BackgroundRun returned nil without a check in a process that shares its
\* schedule file
SharedCheckSkipped ==
    /\ env.peers # <<>>
    /\ pc = "done"
    /\ run.entry = "BackgroundRun"
    /\ ret.err = Nil
    /\ ~run.want

SharedScheduleOnlyRepeatsChecks ==
    /\ (env.peers # <<>> /\ ret.calls = 0 /\ run.entry = "none" /\ NoWriteInProgress) =>
           cktime.st # "corrupt"
    /\ SharedCheckSkipped => readTime(WholeSchedule, now) > now

\* BackgroundRun read the file between the truncation and the write of
\* another process and skipped a check that the last whole schedule made due
DueCheckSkippedDuringPeerWrite ==
    /\ SharedCheckSkipped
    /\ cktime = Truncated
    /\ ~NoWriteInProgress
    /\ readTime(WholeSchedule, now) <= now
    /\ Count(log, "fetch info") = 0

---------------------------------------------------------------------------
(* C34: every run terminates, provided each external call returns, after at *)
(* most one manifest request, at most one patch request and at most one     *)
(* full-binary request, issued in that order; no request and no install     *)
(* step is repeated within a run.                                           *)

\* how far a run has come: every step of a run leads to a later stage
Stage(p) ==
    CASE p = "idle" -> 0
      [] p \in {"Update", "Run"} -> 1
      [] p \in {"fetchInfo", "open", "resolve"} -> 2
      [] p = "patch" -> 3
      [] p = "full" -> 4
      [] p = "install" -> 5
      [] p = "fs_open" -> 6
      [] p = "fs_copy" -> 7
      [] p = "fs_remove" -> 8
      [] p = "fs_rename_old" -> 9
      [] p = "fs_rename_new" -> 10
      [] p \in {"fs_rollback", "fs_cleanup"} -> 11
      [] p = "fs_return" -> 12
      [] p = "done" -> 13

\* the steps of the installer that are one statement each
InstallSteps ==
    {"fromStream", "open new", "write new", "rename target old",
     "rename new target", "rename old target", "hide old"}

\* the requests so far are a start of manifest, patch, full binary, and no
\* install step was taken twice (the backup is removed by two statements, one
\* before the swap and one after it)
NothingRepeated ==
    /\ \E n \in 0..3 : Requested = SubSeq(<<"fetch info", "fetch patch", "fetch bin">>, 1, n)
    /\ \A e \in InstallSteps : Count(log, e) <= 1
    /\ Count(log, "remove old") <= 2

RunsEndWithoutRepeats ==
    [][/\ (pc \notin {"idle", "done"}) => Stage(pc') > Stage(pc)
       /\ (pc = "idle") => Stage(pc') \in {0, 1, 13}
       /\ NothingRepeated']_vars

\* a run that made the three requests and took every step of a failed swap
LongestRunReturned ==
    /\ pc = "done"
    /\ Requested = <<"fetch info", "fetch patch", "fetch bin">>
    /\ Count(log, "rename old target") = 1

---------------------------------------------------------------------------
(* C35: after SetUpdateTime succeeds at time now, the persisted next-check  *)
(* time t satisfies now + CheckTime hours <= t <= now + (CheckTime +        *)
(* RandomizeTime) hours, and t - now - CheckTime hours is a whole number of *)
(* hours.                                                                   *)

\* a call of SetUpdateTime, direct or in BackgroundRun, has just written the
\* schedule file
TimePersisted ==
    /\ run.entry \in {"SetUpdateTime", "BackgroundRun"}
    /\ LastWas("write cktime")
    /\ run.wrote

\* the time the file holds
Persisted == Parse(cktime.sec)

---------------------------------------------------------------------------
(* C36: for FsCacheCheckForUpdateSchedule with interval d: when no state    *)
(* file exists ShouldCheckForUpdate returns true; after UpdatesChecked(t)   *)
(* succeeds, ShouldCheckForUpdate(t') returns false for every t' before     *)
(* t + d and true for every t' at or after t + d, reading the same file     *)
(* that UpdatesChecked wrote.                                               *)

\* ShouldCheckForUpdate has returned at the current time
ScheduleAsked ==
    api = "fscache" /\ pc = "done" /\ run.entry = "ShouldCheckForUpdate"

\* no state file exists, whichever directory the path is relative to
NoStateFile == cktime.st = "absent" /\ env.cwdFile.st = "absent"

FsCacheDueAfterInterval ==
    ScheduleAsked =>
        /\ NoStateFile => (run.want /\ ret.err = Nil)
        /\ env.checked # None =>
             /\ now < env.checked[1] + env.durationBetweenChecks => ~run.want
             /\ now >= env.checked[1] + env.durationBetweenChecks => run.want

\* the interval since the last UpdatesChecked has passed, the file it wrote
\* is the file read, and ShouldCheckForUpdate answers false without an error
FsCacheNeverDue ==
    /\ ScheduleAsked
    /\ env.cwdIsExeDir
    /\ env.checked # None
    /\ cktime.st = "time"
    /\ now >= env.checked[1] + env.durationBetweenChecks
    /\ ret.err = Nil
    /\ ~run.want

---------------------------------------------------------------------------
(* C37: in BackgroundRun, whenever a check is due and the writability probe *)
(* (canUpdate) succeeds, the next-check time is persisted before the        *)
(* manifest request is issued, so it stays advanced even when the manifest  *)
(* fetch, the download or the install of that run then fails; when the      *)
(* probe fails, neither the schedule is written nor any request issued.     *)

\* a BackgroundRun found a check due and its probe succeeded
DueAndProbed ==
    /\ run.entry = "BackgroundRun"
    /\ run.want
    /\ Count(log, "canUpdate") = 1
    /\ pc # "done" \/ log # <<"canUpdate">>

\* a BackgroundRun found a check due and its probe failed
DueAndProbeFailed ==
    /\ run.entry = "BackgroundRun"
    /\ run.want
    /\ pc = "done"
    /\ log = <<"canUpdate">>

\* the schedule file holds a time that is later than this run's start by
\* CheckTime hours at least, cut down to the whole second
ScheduleAdvanced ==
    /\ cktime.st = "time"
    /\ now + u.CheckTime * Hour < Parse(cktime.sec) + Second

SchedulePersistedBeforeRequest ==
    /\ DueAndProbed =>
         /\ ScheduleAdvanced
         /\ Count(log, "fetch info") >= 1 => log[2] = "write cktime"
    /\ DueAndProbeFailed =>
         /\ cktime = run.ck0
         /\ Count(log, "write cktime") = 0
         /\ run.urls = <<>>
         /\ ret.err # Nil

\* the part of C37 that the code keeps: the write is attempted before the
\* request, a write that succeeded stays, and a failed probe ends the run
ScheduleWriteAttemptedBeforeRequest ==
    /\ DueAndProbed =>
         /\ log[2] = "write cktime"
         /\ run.wrote => ScheduleAdvanced
         /\ run.urls # <<>> => Count(log, "fetch info") >= 1
    /\ DueAndProbeFailed =>
         /\ cktime = run.ck0
         /\ Count(log, "write cktime") = 0
         /\ run.urls = <<>>
         /\ ret.err # Nil

\* a BackgroundRun whose probe succeeded requested the manifest, failed, and
\* left a schedule file that holds no later time
RunFailedWithScheduleNotAdvanced ==
    /\ DueAndProbed
    /\ pc = "done"
    /\ ret.err # Nil
    /\ Count(log, "fetch info") = 1
    /\ ~ScheduleAdvanced
---------------------------------------------------------------------------
(* C38: every run that opens a read handle on the target file has closed    *)
(* that handle by the time it returns, on every return path (at-latest,     *)
(* patch and full-binary failure, install failure, success).                *)

\* a call has returned that opened the target for reading
ReturnedAfterOpen ==
    /\ pc = "done"
    /\ run.old # "none"

HandleClosedOnReturn ==
    ReturnedAfterOpen => run.old = "closed"

\* Update, with its defer old.Close(), closes the handle on every return path
UpdateClosesHandleOnReturn ==
    (ReturnedAfterOpen /\ api \in {"legacy", "result"}) => run.old = "closed"

\* Run of the new Updater closes the handle on the paths that reach the installer
RunClosesHandleBeforeInstall ==
    (ReturnedAfterOpen /\ api = "new" /\ Count(log, "fromStream") >= 1) =>
        run.old = "closed"

\* Run of the new Updater returned an error after the patch and the full
\* binary both failed, and the handle it opened is still open
RunReturnedWithOpenHandle ==
    /\ ReturnedAfterOpen
    /\ api = "new"
    /\ run.entry = "Run"
    /\ ret.err # Nil
    /\ ~ret.updated
    /\ run.old = "open"
---------------------------------------------------------------------------
(* C39: with ForceCheck false, once the schedule state file is corrupt, no  *)
(* run ever rewrites it: WantUpdate returns false at every later time,      *)
(* however far in the future, until the file is removed (ClearUpdateState)  *)
(* or rewritten from outside.                                               *)

\* the hours ahead at which WantUpdate is asked: now, soon, and around and
\* beyond the 1000 hours that readTime adds
HoursAhead == {0, 1, FarFutureHours - 1, FarFutureHours, FarFutureHours + 1,
               2 * FarFutureHours}

\* a BackgroundRun of an Updater without ForceCheck that started on a corrupt file
RunOnCorruptSchedule ==
    /\ api \in {"legacy", "result"}
    /\ run.entry = "BackgroundRun"
    /\ ~u.ForceCheck
    /\ run.ck0.st = "corrupt"

CorruptScheduleStaysAndBlocks ==
    /\ (api \in {"legacy", "result"} /\ ~u.ForceCheck /\ cktime.st = "corrupt") =>
         \A h \in HoursAhead : ~WantUpdate(u, cktime, now + h * Hour)
    /\ RunOnCorruptSchedule =>
         /\ ~run.want
         /\ cktime = run.ck0
         /\ Count(log, "write cktime") = 0
         /\ run.urls = <<>>

\* a BackgroundRun of a released version, an hour or more after the start,
\* returned nil on a corrupt file
RunOnCorruptScheduleReturned ==
    /\ RunOnCorruptSchedule
    /\ u.CurrentVersion # "dev"
    /\ pc = "done"
    /\ ret.err = Nil
    /\ now >= 2 * Hour
---------------------------------------------------------------------------
(* C40: Run (new API) resolves and opens the update target only after the   *)
(* manifest has been fetched successfully and found to name a different     *)
(* version: when the manifest fetch fails or the versions are equal, the    *)
(* UpdatableResolver is never called and no file is opened.                 *)

\* a Run is past its manifest step
RunPastManifest ==
    /\ api = "new"
    /\ run.entry = "Run"
    /\ pc # "Run"

\* the manifest of this Run was fetched and names another version
ManifestNamesAnotherVersion ==
    /\ Count(log, "fetch info") = 1
    /\ run_fetchInfo(run.u0.Requester, run.infoGot).err = Nil
    /\ run.info = run_fetchInfo(run.u0.Requester, run.infoGot).Info
    /\ run.info.Version # run.u0.CurrentVersion

\* the Run called the resolver, opened the target or touched a file
TargetTouched ==
    \/ Count(log, "resolve") >= 1
    \/ Count(log, "open old") >= 1
    \/ run.old # "none"
    \/ fs # run.fs0

ResolvesOnlyAfterManifest ==
    RunPastManifest =>
        /\ TargetTouched =>
             /\ log[1] = "fetch info"
             /\ ManifestNamesAnotherVersion
        /\ (pc = "resolve" \/ ret.err = NilDereference) => ManifestNamesAnotherVersion
        /\ (pc = "done" /\ Count(log, "fetch info") = 0) => ~TargetTouched
        /\ (pc = "done" /\ ret.err = Nil /\ ~ret.updated) =>
             /\ run.info.Version = run.u0.CurrentVersion
             /\ ~TargetTouched

\* a Run of an Updater whose resolver is nil found the manifest's version
\* equal to its own and returned (false, nil) without a panic
NilResolverAtLatest ==
    /\ RunPastManifest
    /\ u.updateableResolver = "nil"
    /\ pc = "done"
    /\ ret.err = Nil
    /\ ~ret.updated
    /\ Count(log, "fetch info") = 1
    /\ ~TargetTouched
====
